---------------------------- MODULE Spec2Model ----------------------------
(***************************************************************************)
(* A model of the videosift backend: the distributed lock service, the     *)
(* channel queue with its dispatcher and retry tick, the video pipeline's  *)
(* chunk store and chunker, the rate limiter with the chat route's         *)
(* middleware chain, the chat service, the video loop of a channel run,    *)
(* the queue position, the cache service, the chunk searches, the error    *)
(* tracker, the shutdown of a process, the embedding batches, the          *)
(* transcript download with its retries, the video queue tick and the      *)
(* check for new videos.                                                   *)
(*                                                                         *)
(* The store (Supabase/PostgREST) executes every request atomically; every *)
(* `await` of the code is a point where other tasks, timers and instances  *)
(* may run, so every store request is a step of its own.                   *)
(*                                                                         *)
(* Time is counted in units of 10 seconds, the safety margin of the        *)
(* auto-release timer.  All instances read the same clock.                 *)
(***************************************************************************)
EXTENDS Integers, Sequences, FiniteSets, TLC

VARIABLES
    now,               \* the clock (Date.now()), in units of 10 s
    processing_locks,  \* table processing_locks: set of rows
    locks,             \* DistributedLockService.locks, per instance
    lockTimers,        \* DistributedLockService.lockTimers, per instance
    timers,            \* pending setTimeout callbacks armed by acquire
    autoRel,           \* release() calls started by a timer, in flight
    nextLockId,        \* source of fresh lock ids (Date.now() + Math.random())
    task,              \* the running handlers, one record per task
    runs,              \* number of handler executions started so far
    channel_queue,     \* table channel_queue: sequence of rows, id = index
    channels,          \* table channels: status per channel id
    enq,               \* the enqueueChannel calls, one record per caller
    retry,             \* the retryFailedItems tick, one record per instance
    videos,            \* table videos: row per YouTube id
    transcript_chunks, \* table transcript_chunks: set of rows
    reader,            \* the result of the last chunk read of a video
    chunking,          \* a transcript with the chunks and the blob made of it
    clock,             \* the rate limiter's clock (new Date()), in units of 30 s
    rate_limits,       \* table rate_limits: sequence of rows
    cache,             \* RateLimiter.cache: memo entry per cache key
    limiter,           \* the checkLimit / recordUsage calls, one per caller
    requests,          \* the requests on POST /chat/stream, one per connection
    handled,           \* requests handed to the route handler, per user id
    activeStreams,     \* ChatService.activeStreams: the stream ids set to true
    streams,           \* the streamChat / streamChannelChat calls, one per sink
    chat_messages,     \* table chat_messages: set of rows
    chat_sessions,     \* table chat_sessions: message_count per session
    ingest,            \* the video loop of one processChannel run
    position,          \* a getChannelQueuePosition call with its queue
    cacheService,      \* CacheService: memory tier, store tier, a get call
    search,            \* a chunk search with its candidates and result
    errorTracker,      \* ErrorTracker: the buffer and the error_logs table
    shutdown,          \* the process of instance A: signal handlers, timers
    embedding,         \* a generateEmbeddings call and the storeChunks after it
    download,          \* a downloadWithRetry call
    videoQueue,        \* the queued rows of videos and the 30 s tick
    newVideos,         \* the runs of checkNewVideos
    granted,           \* history: every lease an acquire obtained
    released           \* history: lock ids for which a release() has run

lockVars  == <<now, processing_locks, locks, lockTimers, timers, autoRel,
               nextLockId, granted, released>>
queueVars == <<channel_queue, channels>>
callVars  == <<enq, retry>>
videoVars == <<videos, transcript_chunks, reader>>
chunkVars == <<chunking>>
rateVars  == <<clock, rate_limits, cache, limiter, requests, handled>>
chatVars  == <<activeStreams, streams, chat_messages, chat_sessions>>
ingestVars == <<ingest>>
positionVars == <<position>>
cacheVars == <<cacheService>>
searchVars == <<search>>
trackerVars == <<errorTracker>>
shutdownVars == <<shutdown>>
embedVars == <<embedding>>
downloadVars == <<download>>
tickVars == <<videoQueue>>
checkVars == <<newVideos>>
extVars   == <<chunkVars, rateVars, chatVars, ingestVars, positionVars,
               cacheVars, searchVars, trackerVars, shutdownVars, embedVars,
               downloadVars, tickVars,
               checkVars>>
restVars  == <<callVars, videoVars, extVars>>
baseVars  == <<lockVars, task, runs, queueVars, callVars, videoVars>>
vars      == <<lockVars, task, runs, queueVars, restVars>>
auxVars   == <<positionVars, cacheVars, searchVars, trackerVars,
               shutdownVars, embedVars,
               downloadVars, tickVars,
               checkVars>>
coreVars  == <<baseVars, chunkVars, rateVars, chatVars, ingestVars>>
exceptChunk == <<baseVars, rateVars, chatVars, ingestVars, auxVars>>
exceptRate  == <<baseVars, chunkVars, chatVars, ingestVars, auxVars>>
exceptChat  == <<baseVars, chunkVars, rateVars, ingestVars, auxVars>>
exceptIngest == <<baseVars, chunkVars, rateVars, chatVars, auxVars>>
exceptPosition == <<coreVars, cacheVars, searchVars, trackerVars,
                    shutdownVars, embedVars,
               downloadVars, tickVars,
               checkVars>>
exceptCache == <<coreVars, positionVars, searchVars, trackerVars,
                 shutdownVars, embedVars,
               downloadVars, tickVars,
               checkVars>>
exceptSearch == <<coreVars, positionVars, cacheVars, trackerVars,
                  shutdownVars, embedVars,
               downloadVars, tickVars,
               checkVars>>
exceptEmbed == <<coreVars, positionVars, cacheVars, searchVars, trackerVars,
                 shutdownVars, downloadVars, tickVars,
               checkVars>>
exceptDownload == <<coreVars, positionVars, cacheVars, searchVars,
                    trackerVars, shutdownVars, embedVars, tickVars, checkVars>>
exceptTick == <<coreVars, positionVars, cacheVars, searchVars, trackerVars,
                shutdownVars, embedVars, downloadVars, checkVars>>
exceptCheck == <<coreVars, positionVars, cacheVars, searchVars, trackerVars,
                 shutdownVars, embedVars, downloadVars, tickVars>>
exceptTracker == <<coreVars, positionVars, cacheVars, searchVars,
                   shutdownVars, embedVars,
               downloadVars, tickVars,
               checkVars>>

---------------------------------------------------------------------------
(* Bounds of the model *)

MaxTime    == 3     \* the clock stops here
MaxRuns    == 3     \* handler executions started in one behaviour
ChannelTtl == 2     \* lease of processChannel (3600 s in the code), scaled
VideoTtl   == 2     \* lease of processVideo (600 s in the code), scaled
MaxItems   == 4     \* rows of channel_queue
MaxCalls   == 3     \* enqueueChannel calls of one caller
MaxChunks  == 2     \* chunks createChunks cuts a transcript into
MaxSegments == 3    \* segments of a transcript
MaxText    == 1     \* characters of a segment's text
MaxClock   == 5     \* the rate limiter's clock stops here
HourWindow == 3     \* the hourly window (120 units in the code), scaled
DayWindow  == 4     \* the daily window (2880 units in the code), scaled
MaxEvents  == 3     \* rows of rate_limits
MaxDeltas  == 2     \* chunks one completion stream delivers
MaxMs      == 2     \* values Date.now() takes when stream ids are built
MaxVideos  == 5     \* videos fetchChannelVideos lists for a channel
MaxRequests == 6    \* requests on the chat route that get past authMiddleware
MaxQueue   == 3     \* rows of the queue a position is asked in
MaxCreated == 1     \* latest created_at of those rows (milliseconds)
MaxCacheTime == 3   \* the cache service's clock (Date.now()) stops here
MaxDuration == 2    \* longest duration given to CacheService.set
MaxCandidates == 3  \* rows of transcript_chunks a search runs over
MaxK       == 2     \* largest topK / limit of a search
MaxErrors  == 2     \* errors tracked in one behaviour
MaxKeys    == 2     \* keys of a request body
MaxFlights == 2     \* flushes awaiting their insert at one time
MaxTracked == 11    \* track calls where the size-triggered flush is reached
MaxFailures == 2    \* failed inserts into error_logs
MaxInput   == 4     \* chunks given to generateEmbeddings
BatchSize  == 2     \* batchSize of generateEmbeddings (10 in the code), scaled
MaxQueued  == 6     \* videos enqueued for the 30 s tick
MaxChecks  == 2     \* runs of checkNewVideos
MaxFlushes == 3     \* flushes started by the timer or by shutdown
ChunkSize  == 10    \* chunkSize of createChunks (1000 in the code), scaled
MaxChunkLength == 20 \* longest chunk (2000 in the code), scaled

(* Program constants *)

SafetyMargin == 1   \* the timer fires 10 s (one unit) before expiry

---------------------------------------------------------------------------
(* The processes *)

Instances == {"A", "B"}
Tasks     == {"a1", "a2", "b1"}
InstOf(k) == IF k \in {"a1", "a2"} THEN "A" ELSE "B"

ChannelIds == {"c1", "c2"}
QIds       == 1..MaxItems

\* YouTube ids of videos; VideoRows are the ones with a row in videos
VideoIds  == {"y1", "y2"}
VideoRows == {"y1"}
\* videos.id, the uuid the store gave the row
Uuid(y)   == IF y = "y1" THEN "u1" ELSE "u2"

\* `channel-queue-${queueItemId}` and `video-${videoId}`
Resources == {<<"channel-queue", q>> : q \in QIds}
                 \cup {<<"video", y>> : y \in VideoIds}

NoLock == 0
Null   == 0

Callers == {"e1", "e2"}
NoCall  == [ch |-> "none", res |-> "none"]
IdleCall == [pc |-> "idle", ch |-> "none", calls |-> 0, prev |-> NoCall,
             last |-> NoCall, snap |-> <<>>, quiet |-> FALSE,
             pairQuiet |-> FALSE]

IdleRetry == [pc |-> "idle", items |-> <<>>]

Row(c, s, n, e) ==
    [channel_id |-> c, status |-> s, retry_count |-> n, error_message |-> e]

IdleTask == [pc |-> "idle", kind |-> "none", job |-> 0, todo |-> <<>>,
             lockId |-> NoLock, seen |-> NoLock, relId |-> NoLock,
             chunks |-> 0, video |-> "none", wrote |-> FALSE,
             erred |-> FALSE, error |-> "null", result |-> "none"]

\* the direct callers of the rate limiter, and the connections on which
\* requests for POST /chat/stream arrive
Clients == {"p1", "p2"}
Conns   == {"q1", "q2"}
UserIds == {"u1", "api-client"}

\* the identifiers `ip:<address>` and `user:<id>`, as pairs
Identifiers == {<<"ip", "x">>} \cup {<<"user", u>> : u \in UserIds}
Actions     == {"chat", "video_upload", "channel_process"}
Windows     == {"hour", "day"}

\* getCacheKey: `${identifier}:${action}:${window}`
getCacheKey(identifier, action, window) == <<identifier, action, window>>

CacheKeys == {getCacheKey(i, a, w) : i \in Identifiers, a \in Actions,
                                     w \in Windows}

\* cache.get of a key that is not in the Map
NoMemo == [set |-> FALSE, count |-> 0, expires |-> 0]

NoResult == [allowed |-> TRUE, remaining |-> 0, limit |-> 0,
             window |-> "none", count |-> 0, failOpen |-> FALSE]

IdleLimiter == [pc |-> "idle", op |-> "none", identifier |-> <<"ip", "x">>,
                action |-> "none", userType |-> "none", at |-> 0,
                todo |-> <<>>, count |-> 0, results |-> <<>>,
                result |-> NoResult, must |-> {}]

NoUser == [id |-> "none", isApiKey |-> FALSE, premium |-> FALSE]

IdleRequest == [pc |-> "idle", key |-> FALSE, userId |-> "none",
                user |-> NoUser, status |-> 0, action |-> "chat",
                threw |-> FALSE]

InitRate ==
    /\ clock = 0
    /\ rate_limits = <<>>
    /\ cache = [k \in CacheKeys |-> NoMemo]
    /\ limiter = [p \in Clients \cup Conns |-> IdleLimiter]
    /\ requests = [q \in Conns |-> IdleRequest]
    /\ handled = [u \in UserIds |-> 0]

\* the sink (res) on which a chat answer is streamed, and the sessions
Sinks    == {"r1"}
Sessions == {"s1"}

IdleStream == [pc |-> "idle", kind |-> "none", messages |-> <<>>,
               videoId |-> FALSE, sessionId |-> "none",
               id |-> <<"none", "none", 0>>, context |-> "none",
               failed |-> FALSE, llm |-> FALSE, deltas |-> 0,
               fullResponse |-> <<>>, broke |-> FALSE,
               content |-> 0, done |-> 0, error |-> 0,
               citations |-> "none", ended |-> FALSE]

InitChat ==
    /\ activeStreams = {}
    /\ streams = [s \in Sinks |-> IdleStream]
    /\ chat_messages = {}
    /\ chat_sessions = [x \in Sessions |-> 0]

NoStats == [processed |-> 0, total |-> 0, existing |-> 0,
            no_transcript |-> 0, failed |-> 0]

IdleIngest == [pc |-> "idle", videos |-> <<>>, i |-> 0,
               processedCount |-> 0, failedCount |-> 0, existingCount |-> 0,
               noTranscriptCount |-> 0, processing_error |-> <<>>,
               fate |-> <<>>, stats |-> NoStats, mailed |-> FALSE,
               status |-> "pending"]

InitIngest == ingest = IdleIngest

IdlePosition == [pc |-> "idle", rows |-> <<>>, queueItemId |-> 0,
                 pendingItems |-> <<>>, answered |-> FALSE, result |-> 0]

InitPosition == position = IdlePosition

\* no entry under the key
NoEntry == [held |-> FALSE, data |-> "null", expiresAt |-> 0]

IdleCache == [pc |-> "idle", now |-> 0, memoryCache |-> NoEntry,
              cache |-> NoEntry, data |-> "null", expiresAt |-> 0,
              issuedAt |-> 0, afterSet |-> FALSE, answered |-> FALSE,
              result |-> "null", last |-> NoEntry, fresh |-> FALSE]

InitCache == cacheService = IdleCache

IdleSearch == [pc |-> "idle", fn |-> "none", k |-> 0, table |-> <<>>,
               result |-> <<>>]

InitSearch == search = IdleSearch

IdleTracker == [errorBuffer |-> <<>>, flights |-> <<>>, error_logs |-> <<>>,
                tracked |-> 0, flushes |-> 0, failures |-> 0, ahead |-> {}]

InitTracker == errorTracker = IdleTracker

\* the setInterval timers of the process
Intervals == {"flush", "lockCleanup", "errorCleanup", "pendingChannels"}

IdleShutdown == [pc |-> "running", intervals |-> Intervals,
                 releases |-> [r \in Resources |-> NoLock], held |-> {}]

InitShutdown == shutdown = IdleShutdown

IdleEmbed == [pc |-> "idle", chunks |-> <<>>, i |-> 0, batch |-> <<>>,
              calls |-> <<>>, chunksWithEmbeddings |-> <<>>, stored |-> <<>>,
              failed |-> {}]

InitEmbed == embedding = IdleEmbed

NoError == [status |-> 0, message429 |-> FALSE]

IdleDownload == [pc |-> "idle", i |-> 0, delay |-> 0, attempts |-> 0,
                 waits |-> <<>>, errors |-> <<>>, thrown |-> NoError]

InitDownload == download = IdleDownload

InitTick == videoQueue = [rows |-> <<>>, dispatched |-> {}]

InitCheck == newVideos = [runs |-> 0, ready |-> {}, considered |-> {},
                          processed |-> {}]

InitLocks ==
    /\ InitRate
    /\ InitChat
    /\ InitIngest
    /\ InitPosition
    /\ InitCache
    /\ InitSearch
    /\ InitTracker
    /\ InitShutdown
    /\ InitEmbed
    /\ InitDownload
    /\ InitTick
    /\ InitCheck
    /\ now = 0
    /\ processing_locks = {}
    /\ locks = [i \in Instances |-> [r \in Resources |-> NoLock]]
    /\ lockTimers = [i \in Instances |-> [r \in Resources |-> NoLock]]
    /\ timers = {}
    /\ autoRel = {}
    /\ nextLockId = 1
    /\ task = [k \in Tasks |-> IdleTask]
    /\ runs = 0
    /\ granted = {}
    /\ released = {}
    /\ enq = [e \in Callers |-> IdleCall]
    /\ retry = [i \in Instances |-> IdleRetry]
    /\ videos = [y \in VideoRows |->
                    [id |-> Uuid(y), transcript_cached |-> FALSE,
                     chunks_processed |-> FALSE, processing_error |-> "null"]]
    /\ transcript_chunks = {}
    /\ reader = {}
    /\ chunking = [transcript |-> <<>>, chunks |-> <<>>, blob |-> 0,
                   step |-> "none"]

\* no channel queued
InitNone ==
    /\ InitLocks
    /\ channel_queue = <<>>
    /\ channels = [c \in ChannelIds |-> "pending"]

\* one channel queued
InitOne ==
    /\ InitLocks
    /\ channel_queue = <<Row("c1", "pending", 0, "null")>>
    /\ channels = [c \in ChannelIds |-> "pending"]

\* two channels queued
InitTwo ==
    /\ InitLocks
    /\ channel_queue = <<Row("c1", "pending", 0, "null"),
                         Row("c2", "pending", 0, "null")>>
    /\ channels = [c \in ChannelIds |-> "pending"]

Res(k) == <<task[k].kind, task[k].job>>
Ttl(k) == IF task[k].kind = "channel-queue" THEN ChannelTtl ELSE VideoTtl

SetPc(k, p) == task' = [task EXCEPT ![k].pc = p]


---------------------------------------------------------------------------
(* DistributedLockService (lockService.js) *)

RowsOf(r) == {row \in processing_locks : row.resource_id = r}

\* the unique constraint on processing_locks.resource_id: error 23505
UniqueViolation(r) == RowsOf(r) # {}

\* checkAndCleanExpiredLock: expiresAt < now
Expired(row) == row.expires_at < now

\* .delete().eq('resource_id', r).eq('lock_id', l)
DeleteLock(r, l) ==
    processing_locks \ {row \in processing_locks :
                           row.resource_id = r /\ row.lock_id = l}

\* what the caller of acquire does with the lease: the body of its try block
BodyStart(k) == IF task[k].kind = "channel-queue" THEN "load" ELSE "v_download"

\* the handler returns; a tick goes on with the next row of its list
Return(k) ==
    IF task[k].todo = <<>>
    THEN task' = [task EXCEPT ![k] = IdleTask]
    ELSE task' = [task EXCEPT ![k] =
                     [IdleTask EXCEPT !.pc = "acq_insert",
                                      !.kind = task[k].kind,
                                      !.job = Head(task[k].todo),
                                      !.todo = Tail(task[k].todo)]]

\* acquire: the insert into processing_locks
AcqInsert(k) ==
    /\ task[k].pc = "acq_insert"
    /\ IF UniqueViolation(Res(k))
       THEN /\ SetPc(k, "acq_check")
            /\ UNCHANGED <<processing_locks, nextLockId, granted>>
       ELSE LET lease == [resource_id |-> Res(k), lock_id |-> nextLockId,
                          expires_at |-> now + Ttl(k)]
            IN  /\ processing_locks' = processing_locks \cup {lease}
                /\ granted' = granted \cup {lease}
                /\ nextLockId' = nextLockId + 1
                /\ task' = [task EXCEPT ![k].pc = "acq_record",
                                        ![k].lockId = nextLockId]
    /\ UNCHANGED <<now, locks, lockTimers, timers, autoRel, released, runs,
                   queueVars, restVars>>

\* acquire: the insert fails with another error; it is thrown, caught, and
\* acquire returns null
AcqInsertError(k) ==
    /\ task[k].pc = "acq_insert"
    /\ Return(k)
    /\ UNCHANGED <<lockVars, runs, queueVars, restVars>>

\* acquire, after the insert: locks.set, setTimeout, lockTimers.set
AcqRecord(k) ==
    /\ task[k].pc = "acq_record"
    /\ locks' = [locks EXCEPT ![InstOf(k)][Res(k)] = task[k].lockId]
    /\ timers' = timers \cup
           {[id |-> task[k].lockId, inst |-> InstOf(k), res |-> Res(k),
             at |-> now + Ttl(k) - SafetyMargin]}
    /\ lockTimers' = [lockTimers EXCEPT ![InstOf(k)][Res(k)] = task[k].lockId]
    /\ SetPc(k, BodyStart(k))
    /\ UNCHANGED <<now, processing_locks, autoRel, nextLockId, granted,
                   released, runs, queueVars, restVars>>

\* checkAndCleanExpiredLock: the select and the expiry test
CheckExpired(k) ==
    /\ task[k].pc = "acq_check"
    /\ IF RowsOf(Res(k)) = {}
       THEN Return(k)                       \* returns null: acquire gives up
       ELSE LET row == CHOOSE row \in RowsOf(Res(k)) : TRUE
            IN  IF Expired(row)
                THEN task' = [task EXCEPT ![k].pc = "acq_clean",
                                          ![k].seen = row.lock_id]
                ELSE Return(k)              \* returns false: lock is held
    /\ UNCHANGED <<lockVars, runs, queueVars, restVars>>

\* checkAndCleanExpiredLock: the delete of the expired row, then the retry
CleanExpired(k) ==
    /\ task[k].pc = "acq_clean"
    /\ processing_locks' = DeleteLock(Res(k), task[k].seen)
    /\ SetPc(k, "acq_insert")
    /\ UNCHANGED <<now, locks, lockTimers, timers, autoRel, nextLockId,
                   granted, released, runs, queueVars, restVars>>

\* checkAndCleanExpiredLock: the select answers with an error other than
\* that of .single(); null is returned and acquire returns null
CheckExpiredError(k) ==
    /\ task[k].pc = "acq_check"
    /\ Return(k)
    /\ UNCHANGED <<lockVars, runs, queueVars, restVars>>

\* checkAndCleanExpiredLock: the delete of the expired row answers with an
\* error; the answer is not read, true is returned and acquire starts over
CleanExpiredError(k) ==
    /\ task[k].pc = "acq_clean"
    /\ task' = [task EXCEPT ![k].pc = "acq_insert", ![k].erred = TRUE]
    /\ UNCHANGED <<lockVars, runs, queueVars, restVars>>

\* checkAndCleanExpiredLock: the delete rejects; the catch block returns
\* false and acquire returns null
CleanExpiredThrows(k) ==
    /\ task[k].pc = "acq_clean"
    /\ Return(k)
    /\ UNCHANGED <<lockVars, runs, queueVars, restVars>>

\* release, up to its first await: lockId = this.locks.get(resourceId)
ReleaseRead(k) ==
    /\ task[k].pc = "release"
    /\ IF locks[InstOf(k)][Res(k)] = NoLock
       THEN Return(k)
       ELSE task' = [task EXCEPT ![k].pc = "rel_delete",
                                 ![k].relId = locks[InstOf(k)][Res(k)]]
    /\ UNCHANGED <<lockVars, runs, queueVars, restVars>>

\* release: the delete of the row with this resource_id and lock_id
ReleaseDelete(k) ==
    /\ task[k].pc = "rel_delete"
    /\ processing_locks' = DeleteLock(Res(k), task[k].relId)
    /\ released' = released \cup {task[k].lockId}
    /\ SetPc(k, "rel_cleanup")
    /\ UNCHANGED <<now, locks, lockTimers, timers, autoRel, nextLockId,
                   granted, runs, queueVars, restVars>>

\* release: the store reports an error; release returns false
ReleaseError(k) ==
    /\ task[k].pc = "rel_delete"
    /\ Return(k)
    /\ UNCHANGED <<lockVars, runs, queueVars, restVars>>

\* release, after the delete: locks.delete, clearTimeout, lockTimers.delete
CleanupLocal(i, r) ==
    /\ locks' = [locks EXCEPT ![i][r] = NoLock]
    /\ timers' = {tm \in timers : tm.id # lockTimers[i][r]}
    /\ lockTimers' = [lockTimers EXCEPT ![i][r] = NoLock]

ReleaseCleanup(k) ==
    /\ task[k].pc = "rel_cleanup"
    /\ CleanupLocal(InstOf(k), Res(k))
    /\ Return(k)
    /\ UNCHANGED <<now, processing_locks, autoRel, nextLockId, granted,
                   released, runs, queueVars, restVars>>

\* the auto-release timer fires: release(resourceId) up to its first await
TimerFire(tm) ==
    /\ tm \in timers
    /\ now >= tm.at
    /\ timers' = timers \ {tm}
    /\ autoRel' = IF locks[tm.inst][tm.res] = NoLock
                  THEN autoRel
                  ELSE autoRel \cup
                       {[inst |-> tm.inst, res |-> tm.res, armedBy |-> tm.id,
                         lock_id |-> locks[tm.inst][tm.res], pc |-> "delete"]}
    /\ UNCHANGED <<now, processing_locks, locks, lockTimers, nextLockId,
                   granted, released, task, runs, queueVars, restVars>>

AutoReleaseDelete(a) ==
    /\ a \in autoRel
    /\ a.pc = "delete"
    /\ processing_locks' = DeleteLock(a.res, a.lock_id)
    /\ released' = released \cup {a.armedBy}
    /\ autoRel' = (autoRel \ {a}) \cup {[a EXCEPT !.pc = "cleanup"]}
    /\ UNCHANGED <<now, locks, lockTimers, timers, nextLockId, granted, task,
                   runs, queueVars, restVars>>

AutoReleaseError(a) ==
    /\ a \in autoRel
    /\ a.pc = "delete"
    /\ autoRel' = autoRel \ {a}
    /\ UNCHANGED <<now, processing_locks, locks, lockTimers, timers,
                   nextLockId, granted, released, task, runs, queueVars,
                   restVars>>

AutoReleaseCleanup(a) ==
    /\ a \in autoRel
    /\ a.pc = "cleanup"
    /\ CleanupLocal(a.inst, a.res)
    /\ autoRel' = autoRel \ {a}
    /\ UNCHANGED <<now, processing_locks, nextLockId, granted, released, task,
                   runs, queueVars, restVars>>

\* cleanupExpiredLocks, every minute: delete rows with expires_at < now
CleanupExpiredLocks ==
    /\ \E row \in processing_locks : row.expires_at < now
    /\ processing_locks' = {row \in processing_locks : ~(row.expires_at < now)}
    /\ UNCHANGED <<now, locks, lockTimers, timers, autoRel, nextLockId,
                   granted, released, task, runs, queueVars, restVars>>

\* time passes
Tick ==
    /\ now < MaxTime
    /\ now' = now + 1
    /\ UNCHANGED <<processing_locks, locks, lockTimers, timers, autoRel,
                   nextLockId, granted, released, task, runs, queueVars,
                   restVars>>

---------------------------------------------------------------------------
(* ChannelProcessor (channelProcessor.js) *)

PendingLimit == 5

\* ids of the rows a select on status returns, in id order
IdsWithStatus(st) ==
    LET F[n \in 0..Len(channel_queue)] ==
            IF n = 0 THEN <<>>
            ELSE IF channel_queue[n].status = st
                 THEN Append(F[n - 1], n) ELSE F[n - 1]
    IN  F[Len(channel_queue)]

Limit(seq, n) == SubSeq(seq, 1, IF Len(seq) < n THEN Len(seq) ELSE n)

StartOn(k, list) ==
    task' = [task EXCEPT ![k] =
                [IdleTask EXCEPT !.pc = "acq_insert", !.kind = "channel-queue",
                                 !.job = Head(list), !.todo = Tail(list)]]

\* processPendingChannels: the select of up to 5 pending rows; the rows are
\* then handed to processChannel one after the other
ProcessPendingChannels(k) ==
    /\ task[k].pc = "idle"
    /\ IdsWithStatus("pending") # <<>>
    /\ StartOn(k, Limit(IdsWithStatus("pending"), PendingLimit))
    /\ UNCHANGED <<lockVars, queueVars, restVars>>

\* QueueService.triggerChannelProcessing(queueItemId): processChannel on one
\* row, whatever its status
TriggerChannelProcessing(k, q) ==
    /\ task[k].pc = "idle"
    /\ q \in DOMAIN channel_queue
    /\ StartOn(k, <<q>>)
    /\ UNCHANGED <<lockVars, queueVars, restVars>>

SetStatus(q, st, err) ==
    channel_queue' = [channel_queue EXCEPT ![q].status = st,
                                           ![q].error_message = err]

\* processChannel: the select of the queue row with its channel
LoadQueueItem(k) ==
    /\ task[k].pc = "load"
    /\ \E ok \in BOOLEAN :
          SetPc(k, IF ok THEN "mark_processing" ELSE "mark_failed")
    /\ UNCHANGED <<lockVars, runs, queueVars, restVars>>

\* processChannel: update status = 'processing' where id = queueItemId
MarkProcessing(k) ==
    /\ task[k].pc = "mark_processing"
    /\ SetStatus(task[k].job, "processing",
                 channel_queue[task[k].job].error_message)
    /\ SetPc(k, "chan_processing")
    /\ UNCHANGED <<lockVars, runs, channels, restVars>>

\* processChannel: update channels set status = 'processing'
MarkChannelProcessing(k) ==
    /\ task[k].pc = "chan_processing"
    /\ channels' = [channels EXCEPT
                       ![channel_queue[task[k].job].channel_id] = "processing"]
    /\ SetPc(k, "work")
    /\ UNCHANGED <<lockVars, runs, channel_queue, restVars>>

\* processChannel: fetchChannelVideos and the loop over the videos; an error
\* of one video is caught in the loop, an error of the listing is thrown
ProcessVideos(k) ==
    /\ task[k].pc = "work"
    /\ \E ok \in BOOLEAN :
          SetPc(k, IF ok THEN "mark_completed" ELSE "mark_failed")
    /\ UNCHANGED <<lockVars, runs, queueVars, restVars>>

\* processChannel: update status = 'completed'
MarkCompleted(k) ==
    /\ task[k].pc = "mark_completed"
    /\ SetStatus(task[k].job, "completed", "null")
    /\ SetPc(k, "chan_ready")
    /\ UNCHANGED <<lockVars, runs, channels, restVars>>

\* processChannel: update channels set status = 'ready'; then the email
MarkChannelReady(k) ==
    /\ task[k].pc = "chan_ready"
    /\ channels' = [channels EXCEPT
                       ![channel_queue[task[k].job].channel_id] = "ready"]
    /\ SetPc(k, "release")
    /\ UNCHANGED <<lockVars, runs, channel_queue, restVars>>

\* markChannelFailed, from the catch block of processChannel
MarkChannelFailed(k) ==
    /\ task[k].pc = "mark_failed"
    /\ SetStatus(task[k].job, "failed", "error")
    /\ SetPc(k, "release")
    /\ UNCHANGED <<lockVars, runs, channels, restVars>>

\* processChannel: the update to 'completed' comes back with an error, which
\* nobody reads (`await supabase...update(...)` without a destructuring)
MarkCompletedError(k) ==
    /\ task[k].pc = "mark_completed"
    /\ SetPc(k, "chan_ready")
    /\ UNCHANGED <<lockVars, runs, queueVars, restVars>>

\* markChannelFailed: the update comes back with an error, which nobody reads
MarkChannelFailedError(k) ==
    /\ task[k].pc = "mark_failed"
    /\ SetPc(k, "release")
    /\ UNCHANGED <<lockVars, runs, queueVars, restVars>>

ProcessChannel(k) ==
    \/ LoadQueueItem(k)
    \/ MarkProcessing(k)
    \/ MarkChannelProcessing(k)
    \/ ProcessVideos(k)
    \/ MarkCompleted(k)
    \/ MarkChannelReady(k)
    \/ MarkChannelFailed(k)

Acquire(k) ==
    \/ AcqInsert(k)
    \/ AcqInsertError(k)
    \/ AcqRecord(k)
    \/ CheckExpired(k)
    \/ CleanExpired(k)

Release(k) ==
    \/ ReleaseRead(k)
    \/ ReleaseDelete(k)
    \/ ReleaseError(k)
    \/ ReleaseCleanup(k)

AutoRelease ==
    \/ \E tm \in timers : TimerFire(tm)
    \/ \E a \in autoRel :
          AutoReleaseDelete(a) \/ AutoReleaseError(a) \/ AutoReleaseCleanup(a)

---------------------------------------------------------------------------
(* The lock service alone.  Its callers are the handlers above, seen from  *)
(* the lock: between acquire and release a caller runs its try block,      *)
(* which writes channel_queue and channels (the steps of ProcessChannel)   *)
(* and never touches processing_locks, locks or lockTimers.                *)

CriticalSection(k) ==
    /\ task[k].pc = "load"
    /\ SetPc(k, "release")
    /\ UNCHANGED <<lockVars, runs, queueVars, restVars>>

\* a bounded number of handler executions is started
Started ==
    /\ runs < MaxRuns
    /\ runs' = runs + 1

StartProcessChannel(k, q) == Started /\ TriggerChannelProcessing(k, q)

\* the store fails while acquire looks at the row that is in its way
AcquireFails(k) ==
    \/ CheckExpiredError(k)
    \/ CleanExpiredError(k)
    \/ CleanExpiredThrows(k)

Workers == {"a1", "b1"}

\* acquire and release of one resource by a task on each instance, with a
\* store that can fail at every request of acquire
NextAcquire ==
    \/ \E k \in Workers : StartProcessChannel(k, 1)
    \/ \E k \in Workers : Acquire(k) \/ AcquireFails(k)
    \/ \E k \in Workers : CriticalSection(k) \/ Release(k)
    \/ AutoRelease
    \/ CleanupExpiredLocks
    \/ Tick

SpecAcquire == InitOne /\ [][NextAcquire]_vars

NextLock ==
    \/ \E k \in Tasks, q \in QIds : StartProcessChannel(k, q)
    \/ \E k \in Tasks : Acquire(k) \/ CriticalSection(k) \/ Release(k)
    \/ AutoRelease
    \/ CleanupExpiredLocks
    \/ Tick

SpecLock == InitOne /\ [][NextLock]_vars

---------------------------------------------------------------------------
(* The dispatcher: ticks of processPendingChannels on two instances work   *)
(* through the pending rows.  The clock stands still: no lease expires and *)
(* no auto-release timer fires while the rows are processed.               *)

TickProcessPending(k) == Started /\ ProcessPendingChannels(k)

NextQueue ==
    \/ \E k \in {"a1", "b1"} : TickProcessPending(k)
    \/ \E k \in {"a1", "b1"} :
          \/ AcqInsert(k) \/ AcqInsertError(k) \/ AcqRecord(k)
          \/ CheckExpired(k)
          \/ ProcessChannel(k)
          \/ Release(k)

SpecQueue == InitTwo /\ [][NextQueue]_vars

---------------------------------------------------------------------------
(* QueueService.enqueueChannel *)

\* rows of channel c with status in ('pending', 'processing')
ActiveRows(c) ==
    {q \in DOMAIN channel_queue :
        /\ channel_queue[q].channel_id = c
        /\ channel_queue[q].status \in {"pending", "processing"}}

\* .single(): the row when exactly one row matches, else no data
Single(S) == IF Cardinality(S) = 1 THEN CHOOSE q \in S : TRUE ELSE Null

\* the call returns (or throws); what the caller got is kept, with the
\* contents of the queue at that moment and with whether the queue was, all
\* through the call, as the caller's previous call had left it
EnqueueReturn(e, res, queue, quiet) ==
    enq' = [enq EXCEPT ![e] =
               [pc |-> "idle", ch |-> "none", calls |-> enq[e].calls,
                prev |-> enq[e].last,
                last |-> [ch |-> enq[e].ch, res |-> res],
                snap |-> queue,
                quiet |-> FALSE,
                pairQuiet |-> quiet]]

\* a caller (a route handler) calls enqueueChannel(c, userId, priority)
EnqueueChannel(e, c) ==
    /\ enq[e].pc = "idle"
    /\ enq[e].calls < MaxCalls
    /\ enq' = [enq EXCEPT ![e].pc = "check", ![e].ch = c,
                          ![e].calls = @ + 1]
    /\ UNCHANGED <<lockVars, task, runs, queueVars, retry, videoVars, extVars>>

\* the select of an existing pending or processing row of the channel
EnqueueCheck(e) ==
    /\ enq[e].pc = "check"
    /\ IF Single(ActiveRows(enq[e].ch)) # Null
       THEN EnqueueReturn(e, "existing", channel_queue,
                          channel_queue = enq[e].snap)
       ELSE enq' = [enq EXCEPT ![e].pc = "lookup",
                               ![e].quiet = (channel_queue = enq[e].snap)]
    /\ UNCHANGED <<lockVars, task, runs, queueVars, retry, videoVars, extVars>>

\* the select of the channel; 'Channel not found' is thrown without it
EnqueueLookup(e) ==
    /\ enq[e].pc = "lookup"
    /\ IF enq[e].ch \in DOMAIN channels
       THEN enq' = [enq EXCEPT ![e].pc = "insert"]
       ELSE EnqueueReturn(e, "error", channel_queue, FALSE)
    /\ UNCHANGED <<lockVars, task, runs, queueVars, retry, videoVars, extVars>>

\* the insert of the new pending row
EnqueueInsert(e) ==
    /\ enq[e].pc = "insert"
    /\ Len(channel_queue) < MaxItems
    /\ channel_queue' = Append(channel_queue,
                               Row(enq[e].ch, "pending", 0, "null"))
    /\ EnqueueReturn(e, "created", channel_queue',
                     enq[e].quiet /\ channel_queue = enq[e].snap)
    /\ UNCHANGED <<lockVars, task, runs, channels, retry, videoVars, extVars>>

\* the insert is rejected; the error is thrown
EnqueueInsertError(e) ==
    /\ enq[e].pc = "insert"
    /\ EnqueueReturn(e, "error", channel_queue, FALSE)
    /\ UNCHANGED <<lockVars, task, runs, queueVars, retry, videoVars, extVars>>

NextEnqueue ==
    \/ \E e \in Callers, c \in ChannelIds \cup {"c0"} : EnqueueChannel(e, c)
    \/ \E e \in Callers :
          \/ EnqueueCheck(e)
          \/ EnqueueLookup(e)
          \/ EnqueueInsert(e)
          \/ EnqueueInsertError(e)

SpecEnqueue == InitNone /\ [][NextEnqueue]_vars

---------------------------------------------------------------------------
(* QueueService.retryFailedItems, started every 5 minutes on each instance *)

RetryLimit == 3
RetryBatch == 5

\* ids of the rows with status = 'failed' and retry_count < 3, in id order
RetryableIds ==
    LET F[n \in 0..Len(channel_queue)] ==
            IF n = 0 THEN <<>>
            ELSE IF /\ channel_queue[n].status = "failed"
                    /\ channel_queue[n].retry_count < RetryLimit
                 THEN Append(F[n - 1], n) ELSE F[n - 1]
    IN  F[Len(channel_queue)]

\* the select of up to 5 failed rows
RetrySelect(i) ==
    /\ retry[i].pc = "idle"
    /\ RetryableIds # <<>>
    /\ retry' = [retry EXCEPT ![i] =
                    [pc |-> "update",
                     items |-> Limit(RetryableIds, RetryBatch)]]
    /\ UNCHANGED <<lockVars, task, runs, queueVars, enq, videoVars, extVars>>

RetryNext(i) ==
    retry' = [retry EXCEPT ![i] =
                 IF Tail(retry[i].items) = <<>> THEN IdleRetry
                 ELSE [pc |-> "update", items |-> Tail(retry[i].items)]]

\* the update of one selected row, by id alone: status = 'pending',
\* retry_count = retry_count + 1, error_message = null
RetryUpdate(i) ==
    /\ retry[i].pc = "update"
    /\ LET q == Head(retry[i].items)
       IN  channel_queue' = [channel_queue EXCEPT ![q] =
               Row(channel_queue[q].channel_id, "pending",
                   channel_queue[q].retry_count + 1, "null")]
    /\ RetryNext(i)
    /\ UNCHANGED <<lockVars, task, runs, channels, enq, videoVars, extVars>>

\* building or sending the update throws (supabase.sql is not part of the
\* client this repository creates): the catch block returns 0
RetryThrow(i) ==
    /\ retry[i].pc = "update"
    /\ retry' = [retry EXCEPT ![i] = IdleRetry]
    /\ UNCHANGED <<lockVars, task, runs, queueVars, enq, videoVars, extVars>>

RetryFailedItems(i) == RetrySelect(i) \/ RetryUpdate(i) \/ RetryThrow(i)

\* the dispatcher of one instance with the retry ticks of both; the clock
\* stands still
DispatchTick == ProcessPendingChannels("a1") /\ UNCHANGED runs

NextRetry ==
    \/ DispatchTick
    \/ \/ AcqInsert("a1") \/ AcqInsertError("a1") \/ AcqRecord("a1")
       \/ ProcessChannel("a1")
       \/ Release("a1")
    \/ \E i \in Instances : RetryFailedItems(i)

SpecRetry == InitOne /\ [][NextRetry]_vars

---------------------------------------------------------------------------
(* VideoProcessor.processVideo (videoProcessor.js) *)

\* createChunks: the chunks of a transcript are numbered from 0
ChunkIndexes(n) == 0..(n - 1)

ChunksOf(u) == {c \in transcript_chunks : c.video_id = u}

\* a delete that names the video by the id of its row
DeleteChunksOfRow(y) == {c \in transcript_chunks : c.video_id # Uuid(y)}

\* storeChunks: .delete().eq('video_id', videoId) with the YouTube id; what
\* is left of the table
DeleteChunks(y) == {c \in transcript_chunks : c.video_id # y}

\* processVideo(videoId) is called
ProcessVideo(k, y) ==
    /\ task[k].pc = "idle"
    /\ task' = [task EXCEPT ![k] =
                   [IdleTask EXCEPT !.pc = "acq_insert", !.kind = "video",
                                    !.job = y]]
    /\ UNCHANGED <<lockVars, queueVars, restVars>>

\* a step of the try block throws: the catch block is entered with the error
Throw(k, message) ==
    task' = [task EXCEPT ![k].pc = "v_catch", ![k].error = message]

\* a step of the try block that reads or writes outside the tables: it
\* succeeds or throws
Attempt(k, from, to, message) ==
    /\ task[k].pc = from
    /\ \/ SetPc(k, to)
       \/ Throw(k, message)
    /\ UNCHANGED <<lockVars, runs, queueVars, restVars>>

DownloadTranscript(k) ==
    Attempt(k, "v_download", "v_transcript", "Unable to analyze this video")

StoreTranscript(k) ==
    Attempt(k, "v_transcript", "v_chunks", "Failed to store transcript")

\* createChunks, then generateEmbeddings
GenerateEmbeddings(k) ==
    /\ task[k].pc = "v_chunks"
    /\ \/ \E n \in 1..MaxChunks :
             task' = [task EXCEPT ![k].pc = "v_delete", ![k].chunks = n]
       \/ Throw(k, "createChunks failed")
    /\ UNCHANGED <<lockVars, runs, queueVars, restVars>>

\* storeChunks: the delete of the existing chunks; its result is not read
StoreChunksDelete(k) ==
    /\ task[k].pc = "v_delete"
    /\ transcript_chunks' = DeleteChunks(task[k].job)
    /\ task' = [task EXCEPT ![k].pc = "v_select",
                            ![k].wrote = (transcript_chunks' # transcript_chunks)]
    /\ UNCHANGED <<lockVars, runs, queueVars, callVars, videos, reader, extVars>>

\* storeChunks: the select of the video row; 'Video not found' without it
StoreChunksSelect(k) ==
    /\ task[k].pc = "v_select"
    /\ IF task[k].job \in DOMAIN videos
       THEN task' = [task EXCEPT ![k].pc = "v_insert",
                                 ![k].video = videos[task[k].job].id]
       ELSE Throw(k, "Video not found")
    /\ UNCHANGED <<lockVars, runs, queueVars, restVars>>

\* storeChunks: the insert of all chunk records in one request
StoreChunksInsert(k) ==
    /\ task[k].pc = "v_insert"
    /\ transcript_chunks' = transcript_chunks \cup
           {[video_id |-> task[k].video, chunk_index |-> i,
             run |-> task[k].lockId] : i \in ChunkIndexes(task[k].chunks)}
    /\ task' = [task EXCEPT ![k].pc = "v_update", ![k].wrote = TRUE]
    /\ UNCHANGED <<lockVars, runs, queueVars, callVars, videos, reader, extVars>>

\* storeChunks: the insert is rejected; 'Failed to store chunks' is thrown
StoreChunksInsertError(k) ==
    /\ task[k].pc = "v_insert"
    /\ Throw(k, "Failed to store chunks")
    /\ UNCHANGED <<lockVars, runs, queueVars, restVars>>

\* .update(fields).eq('youtube_id', y) on videos
UpdateVideoRow(y, cached, processed, err) ==
    IF y \in DOMAIN videos
    THEN videos' = [videos EXCEPT ![y].transcript_cached = cached,
                                  ![y].chunks_processed = processed,
                                  ![y].processing_error = err]
    ELSE UNCHANGED videos

\* processVideo: the update of the video row after storeChunks
UpdateVideo(k) ==
    /\ task[k].pc = "v_update"
    /\ UpdateVideoRow(task[k].job, TRUE, TRUE,
                      IF task[k].job \in DOMAIN videos
                      THEN videos[task[k].job].processing_error ELSE "null")
    /\ SetPc(k, "release")
    /\ UNCHANGED <<lockVars, runs, queueVars, callVars, transcript_chunks,
                   reader, extVars>>

\* processVideo: the catch block
UpdateVideoError(k) ==
    /\ task[k].pc = "v_catch"
    /\ UpdateVideoRow(task[k].job, FALSE,
                      IF task[k].job \in DOMAIN videos
                      THEN videos[task[k].job].chunks_processed ELSE FALSE,
                      task[k].error)
    /\ task' = [task EXCEPT ![k].pc = "release", ![k].result = "false"]
    /\ UNCHANGED <<lockVars, runs, queueVars, callVars, transcript_chunks,
                   reader, extVars>>

\* the catch block: the store answers the update with an error, which is
\* not read; false is returned
UpdateVideoErrorFails(k) ==
    /\ task[k].pc = "v_catch"
    /\ task' = [task EXCEPT ![k].pc = "release", ![k].result = "false"]
    /\ UNCHANGED <<lockVars, runs, queueVars, restVars>>

\* the catch block: the update throws (no answer from the store); after the
\* finally block processVideo rejects
UpdateVideoErrorThrows(k) ==
    /\ task[k].pc = "v_catch"
    /\ task' = [task EXCEPT ![k].pc = "release", ![k].result = "rejected"]
    /\ UNCHANGED <<lockVars, runs, queueVars, restVars>>

\* hybridChunkSearch(video.id, ...): the select of all chunks of the video
ReadChunks(y) ==
    /\ y \in DOMAIN videos
    /\ reader' = ChunksOf(videos[y].id)
    /\ reader' # reader
    /\ UNCHANGED <<lockVars, task, runs, queueVars, callVars, videos,
                   transcript_chunks, extVars>>

StartProcessVideo(k, y) == Started /\ ProcessVideo(k, y)

\* two instances process videos while a reader searches their chunks; the
\* clock stands still
NextVideo ==
    \/ \E k \in {"a1", "b1"}, y \in VideoIds : StartProcessVideo(k, y)
    \/ \E k \in {"a1", "b1"} :
          \/ AcqInsert(k) \/ AcqInsertError(k) \/ AcqRecord(k)
          \/ CheckExpired(k)
          \/ DownloadTranscript(k) \/ StoreTranscript(k)
          \/ GenerateEmbeddings(k)
          \/ StoreChunksDelete(k) \/ StoreChunksSelect(k)
          \/ StoreChunksInsert(k) \/ StoreChunksInsertError(k)
          \/ UpdateVideo(k) \/ UpdateVideoError(k)
          \/ UpdateVideoErrorFails(k) \/ UpdateVideoErrorThrows(k)
          \/ Release(k)
    \/ \E y \in VideoIds : ReadChunks(y)

SpecVideo == InitNone /\ [][NextVideo]_vars

---------------------------------------------------------------------------
(* VideoProcessor.createChunks and storeTranscript: strings are sequences  *)
(* of characters; "s4" is a character outside the basic plane (two UTF-16  *)
(* code units, four bytes of UTF-8), "nl" the line feed.                   *)

Chars == {"a", ".", "s4"}

CodeUnits(c) == IF c = "s4" THEN 2 ELSE 1
Utf8Bytes(c) == IF c = "s4" THEN 4 ELSE 1

\* String.prototype.length
StringLength(str) ==
    LET F[n \in 0..Len(str)] ==
            IF n = 0 THEN 0 ELSE F[n - 1] + CodeUnits(str[n])
    IN  F[Len(str)]

\* Buffer.from(str, 'utf-8').length
ByteLength(str) ==
    LET F[n \in 0..Len(str)] ==
            IF n = 0 THEN 0 ELSE F[n - 1] + Utf8Bytes(str[n])
    IN  F[Len(str)]

\* the size of the object that storage.upload(path, content) writes
BlobSize(str) ==
    LET F[n \in 0..Len(str)] ==
            IF n = 0 THEN 0 ELSE F[n - 1] + Utf8Bytes(str[n])
    IN  F[Len(str)]

DigitChar(d) == <<"0", "1", "2", "3", "4", "5", "6", "7", "8", "9">>[d + 1]

\* Number.prototype.toString
RECURSIVE Digits(_)
Digits(n) ==
    IF n < 10 THEN <<DigitChar(n)>>
    ELSE Digits(n \div 10) \o <<DigitChar(n % 10)>>

\* secs.toString().padStart(2, '0')
PadStart2(str) == IF Len(str) < 2 THEN <<"0">> \o str ELSE str

\* formatTimestamp(seconds)
FormatTimestamp(seconds) ==
    Digits(seconds \div 60) \o <<":">> \o PadStart2(Digits(seconds % 60))

\* `[${timestamp}] ${segment.text}\n`
Line(segment) ==
    <<"[">> \o FormatTimestamp(segment.start) \o <<"]", " ">>
        \o segment.text \o <<"nl">>

\* no text ends a sentence
NeverBreak(text) == FALSE

\* segment.text.match(/[.!?]$/)
IsNaturalBreak(text) ==
    Len(text) > 0 /\ text[Len(text)] \in {".", "!", "?"}

\* one pass of the loop of createChunks
ChunkLoop(st, segment, isLastSegment) ==
    LET atStart == StringLength(st.currentChunk) = 0
        chunkStartTime == IF atStart THEN segment.start ELSE st.chunkStartTime
        chunkStartOffset == IF atStart THEN st.byteOffset
                            ELSE st.chunkStartOffset
        currentChunk == st.currentChunk \o Line(segment)
        isLongEnough == StringLength(currentChunk) >= ChunkSize
        isTooLong == StringLength(currentChunk) >= MaxChunkLength
    IN  IF (IsNaturalBreak(segment.text) /\ isLongEnough)
              \/ isTooLong \/ isLastSegment
        THEN [chunks |-> Append(st.chunks,
                            [chunk_index |-> st.chunkIndex,
                             start_time |-> chunkStartTime,
                             end_time |-> segment.end,
                             byte_offset |-> chunkStartOffset,
                             byte_length |-> ByteLength(currentChunk),
                             text |-> currentChunk]),
              byteOffset |-> st.byteOffset + ByteLength(currentChunk),
              chunkIndex |-> st.chunkIndex + 1,
              currentChunk |-> <<>>,
              chunkStartTime |-> chunkStartTime,
              chunkStartOffset |-> chunkStartOffset]
        ELSE [st EXCEPT !.currentChunk = currentChunk,
                        !.chunkStartTime = chunkStartTime,
                        !.chunkStartOffset = chunkStartOffset]

\* createChunks(transcript)
CreateChunks(transcript) ==
    LET F[i \in 0..Len(transcript)] ==
            IF i = 0
            THEN [chunks |-> <<>>, byteOffset |-> 0, chunkIndex |-> 0,
                  currentChunk |-> <<>>, chunkStartTime |-> 0,
                  chunkStartOffset |-> 0]
            ELSE ChunkLoop(F[i - 1], transcript[i], i = Len(transcript))
    IN  F[Len(transcript)].chunks

\* storeTranscript: the content of the transcript file
Content(transcript) ==
    LET F[i \in 0..Len(transcript)] ==
            IF i = 0 THEN <<>> ELSE F[i - 1] \o Line(transcript[i])
    IN  F[Len(transcript)]

Texts == UNION {[1..m -> Chars] : m \in 0..MaxText}

\* the segments downloadTranscript returns
Segments == {[start |-> b, end |-> b + 2, text |-> t] : b \in {5, 600},
                                                         t \in Texts}

Transcripts == UNION {[1..m -> Segments] : m \in 1..MaxSegments}

\* processVideo: downloadTranscript returns a transcript that is not empty
ReceiveTranscript ==
    /\ chunking.step = "none"
    /\ \E t \in Transcripts :
          chunking' = [transcript |-> t, chunks |-> <<>>, blob |-> 0,
                       step |-> "transcript"]
    /\ UNCHANGED exceptChunk

\* processVideo: storeTranscript
UploadTranscript ==
    /\ chunking.step = "transcript"
    /\ chunking' = [chunking EXCEPT
                       !.blob = BlobSize(Content(chunking.transcript)),
                       !.step = "stored"]
    /\ UNCHANGED exceptChunk

\* processVideo: createChunks
ChunkTranscript ==
    /\ chunking.step = "stored"
    /\ chunking' = [chunking EXCEPT
                       !.chunks = CreateChunks(chunking.transcript),
                       !.step = "chunked"]
    /\ UNCHANGED exceptChunk

NextChunks ==
    \/ ReceiveTranscript
    \/ UploadTranscript
    \/ ChunkTranscript

SpecChunks == InitNone /\ [][NextChunks]_vars

---------------------------------------------------------------------------
(* RateLimiter: checkLimit, checkWindowLimit, recordUsage                  *)
(*                                                                         *)
(* The limiter's clock counts units of 30 seconds.  A result carries, next *)
(* to the fields of the code, the count it was computed from and whether   *)
(* it is the fail-open answer.  The resetAt field is left out.  A row of   *)
(* rate_limits carries the history field `returned`: the recordUsage that  *)
(* inserted it has returned.  The cap of 1000 memo entries is not reached. *)

MemoTtl    == 2     \* life of a memo entry: 60000 ms, in units of 30 s
NullLimit  == -1    \* a window of RATE_LIMITS that is null
Infinity   == 1000000  \* the remaining of the reduce's initial value

RATE_LIMITS ==
    [anonymous |->
        [chat            |-> [hourly |-> 5, daily |-> 5],
         video_upload    |-> [hourly |-> NullLimit, daily |-> 2],
         channel_process |-> [hourly |-> NullLimit, daily |-> 0]],
     user |->
        [chat            |-> [hourly |-> 5, daily |-> 5],
         video_upload    |-> [hourly |-> NullLimit, daily |-> 10],
         channel_process |-> [hourly |-> NullLimit, daily |-> 1]],
     premium |->
        [chat            |-> [hourly |-> 50, daily |-> 200],
         video_upload    |-> [hourly |-> NullLimit, daily |-> 50],
         channel_process |-> [hourly |-> NullLimit, daily |-> 10]]]

\* checkLimit: the windows that have a limit, in the order they are checked
WindowsOf(limits) ==
    (IF limits.hourly # NullLimit THEN <<"hour">> ELSE <<>>)
        \o (IF limits.daily # NullLimit THEN <<"day">> ELSE <<>>)

LimitOf(limits, window) ==
    IF window = "hour" THEN limits.hourly ELSE limits.daily

\* checkWindowLimit: windowStart
WindowStart(at, window) ==
    IF window = "hour" THEN at - HourWindow ELSE at - DayWindow

\* the rows the count request of checkWindowLimit selects
UsageRows(identifier, action, windowStart) ==
    {i \in 1..Len(rate_limits) :
        /\ rate_limits[i].identifier = identifier
        /\ rate_limits[i].action = action
        /\ rate_limits[i].created_at >= windowStart}

\* checkWindowLimit: the result made of a count
WindowResult(limit, window, usageCount) ==
    LET remaining == IF limit - usageCount > 0 THEN limit - usageCount ELSE 0
    IN  [allowed |-> remaining > 0, remaining |-> remaining, limit |-> limit,
         window |-> window, count |-> usageCount, failOpen |-> FALSE]

\* a limiter that denies when the count request fails
FailClosed(limit) ==
    [allowed |-> FALSE, remaining |-> 0, limit |-> NullLimit,
     window |-> "none", count |-> 0, failOpen |-> TRUE]

\* checkWindowLimit: the answer when the count request fails
FailOpen(limit) ==
    [allowed |-> TRUE, remaining |-> limit, limit |-> NullLimit,
     window |-> "none", count |-> 0, failOpen |-> TRUE]

\* checkLimit: the reduce that picks the most restrictive result
MostRestrictive(results) ==
    LET F[i \in 0..Len(results)] ==
            IF i = 0
            THEN [NoResult EXCEPT !.remaining = Infinity]
            ELSE LET prev == F[i - 1]
                     current == results[i]
                 IN  IF ~current.allowed THEN current
                     ELSE IF ~prev.allowed THEN prev
                     ELSE IF current.remaining < prev.remaining THEN current
                     ELSE prev
    IN  F[Len(results)]

\* history: the rows of a key whose recordUsage has returned
ReturnedRows(identifier, action) ==
    {i \in 1..Len(rate_limits) :
        /\ rate_limits[i].identifier = identifier
        /\ rate_limits[i].action = action
        /\ rate_limits[i].returned}

\* the call record of a checkLimit that has just taken `now`
StartCheck(identifier, action, userType) ==
    [IdleLimiter EXCEPT
        !.pc = "window", !.op = "check", !.identifier = identifier,
        !.action = action, !.userType = userType, !.at = clock,
        !.todo = WindowsOf(RATE_LIMITS[userType][action]),
        !.must = ReturnedRows(identifier, action)]

\* the call record of a recordUsage that has built its row
StartRecord(identifier, action) ==
    [IdleLimiter EXCEPT
        !.pc = "insert", !.op = "record", !.identifier = identifier,
        !.action = action, !.at = clock]

\* checkLimit: a window's result is pushed; after the last window the most
\* restrictive result is returned
AfterWindow(c, r) ==
    LET results == Append(c.results, r)
        todo == Tail(c.todo)
    IN  [c EXCEPT !.results = results, !.todo = todo, !.count = 0,
                  !.pc = IF todo = <<>> THEN "idle" ELSE "window",
                  !.result = IF todo = <<>> THEN MostRestrictive(results)
                             ELSE NoResult]

CheckLimit(p, identifier, action, userType) ==
    /\ limiter[p].pc = "idle"
    /\ limiter' = [limiter EXCEPT
                      ![p] = StartCheck(identifier, action, userType)]
    /\ UNCHANGED <<clock, rate_limits, cache, requests, handled>>
    /\ UNCHANGED exceptRate

\* checkWindowLimit up to its await: the memo entry is used if it has not
\* expired at the `now` checkLimit took
CheckWindowProbe(p) ==
    /\ limiter[p].pc = "window"
    /\ LET c == limiter[p]
           window == Head(c.todo)
           limit == LimitOf(RATE_LIMITS[c.userType][c.action], window)
           cached == cache[getCacheKey(c.identifier, c.action, window)]
       IN  IF cached.set /\ cached.expires > c.at
           THEN limiter' = [limiter EXCEPT
                    ![p] = AfterWindow(c, WindowResult(limit, window,
                                                       cached.count))]
           ELSE limiter' = [limiter EXCEPT ![p].pc = "count"]
    /\ UNCHANGED <<clock, rate_limits, cache, requests, handled>>
    /\ UNCHANGED exceptRate

\* the store executes the count request
StoreCount(p) ==
    /\ limiter[p].pc = "count"
    /\ LET c == limiter[p]
           window == Head(c.todo)
       IN  limiter' = [limiter EXCEPT
               ![p].count = Cardinality(UsageRows(c.identifier, c.action,
                                            WindowStart(c.at, window))),
               ![p].pc = "memo"]
    /\ UNCHANGED <<clock, rate_limits, cache, requests, handled>>
    /\ UNCHANGED exceptRate

\* the count request fails: fail open
StoreCountError(p) ==
    /\ limiter[p].pc = "count"
    /\ LET c == limiter[p]
           limit == LimitOf(RATE_LIMITS[c.userType][c.action], Head(c.todo))
       IN  limiter' = [limiter EXCEPT ![p] = AfterWindow(c, FailOpen(limit))]
    /\ UNCHANGED <<clock, rate_limits, cache, requests, handled>>
    /\ UNCHANGED exceptRate

\* the count request rejects: the catch block of checkWindowLimit fails open
StoreCountThrows(p) ==
    /\ limiter[p].pc = "count"
    /\ LET c == limiter[p]
           limit == LimitOf(RATE_LIMITS[c.userType][c.action], Head(c.todo))
       IN  limiter' = [limiter EXCEPT ![p] = AfterWindow(c, FailOpen(limit))]
    /\ UNCHANGED <<clock, rate_limits, cache, requests, handled>>
    /\ UNCHANGED exceptRate

\* checkWindowLimit after its await: the count is memoized and returned
CacheSet(p) ==
    /\ limiter[p].pc = "memo"
    /\ LET c == limiter[p]
           window == Head(c.todo)
           limit == LimitOf(RATE_LIMITS[c.userType][c.action], window)
       IN  /\ cache' = [cache EXCEPT
                  ![getCacheKey(c.identifier, c.action, window)] =
                      [set |-> TRUE, count |-> c.count,
                       expires |-> c.at + MemoTtl]]
           /\ limiter' = [limiter EXCEPT
                  ![p] = AfterWindow(c, WindowResult(limit, window, c.count))]
    /\ UNCHANGED <<clock, rate_limits, requests, handled>>
    /\ UNCHANGED exceptRate

RecordUsage(p, identifier, action) ==
    /\ limiter[p].pc = "idle"
    /\ limiter' = [limiter EXCEPT ![p] = StartRecord(identifier, action)]
    /\ UNCHANGED <<clock, rate_limits, cache, requests, handled>>
    /\ UNCHANGED exceptRate

\* the store executes the insert
RecordInsert(p) ==
    /\ limiter[p].pc = "insert"
    /\ rate_limits' = Append(rate_limits,
                             [identifier |-> limiter[p].identifier,
                              action |-> limiter[p].action,
                              created_at |-> limiter[p].at,
                              returned |-> FALSE])
    /\ limiter' = [limiter EXCEPT ![p].pc = "invalidate",
                                  ![p].count = Len(rate_limits) + 1]
    /\ UNCHANGED <<clock, cache, requests, handled>>
    /\ UNCHANGED exceptRate

\* the insert fails: the error is logged
RecordInsertError(p) ==
    /\ limiter[p].pc = "insert"
    /\ limiter' = [limiter EXCEPT ![p].pc = "invalidate"]
    /\ UNCHANGED <<clock, rate_limits, cache, requests, handled>>
    /\ UNCHANGED exceptRate

\* recordUsage after its await: both memo entries of the key are deleted
RecordInvalidate(p) ==
    /\ limiter[p].pc = "invalidate"
    /\ LET c == limiter[p]
       IN  /\ cache' = [cache EXCEPT
                  ![getCacheKey(c.identifier, c.action, "hour")] = NoMemo,
                  ![getCacheKey(c.identifier, c.action, "day")] = NoMemo]
           /\ rate_limits' = [i \in 1..Len(rate_limits) |->
                  IF i = c.count
                  THEN [rate_limits[i] EXCEPT !.returned = TRUE]
                  ELSE rate_limits[i]]
           /\ limiter' = [limiter EXCEPT
                  ![p] = [IdleLimiter EXCEPT !.op = "record",
                             !.identifier = c.identifier,
                             !.action = c.action]]
    /\ UNCHANGED <<clock, requests, handled>>
    /\ UNCHANGED exceptRate

RateTick ==
    /\ clock < MaxClock
    /\ clock' = clock + 1
    /\ UNCHANGED <<rate_limits, cache, limiter, requests, handled>>
    /\ UNCHANGED exceptRate

\* the keys the callers use: one address, two actions of class anonymous
RateInputs == {"video_upload", "chat"}

CallCheckLimit(p) ==
    \E action \in RateInputs :
        CheckLimit(p, <<"ip", "x">>, action, "anonymous")

CallRecordUsage(p) ==
    /\ Len(rate_limits)
         + Cardinality({c \in Clients : limiter[c].pc = "insert"}) < MaxEvents
    /\ \E action \in RateInputs : RecordUsage(p, <<"ip", "x">>, action)

LimiterStep(p) ==
    \/ CallCheckLimit(p)
    \/ CheckWindowProbe(p)
    \/ StoreCount(p)
    \/ StoreCountError(p)
    \/ StoreCountThrows(p)
    \/ CacheSet(p)
    \/ CallRecordUsage(p)
    \/ RecordInsert(p)
    \/ RecordInsertError(p)
    \/ RecordInvalidate(p)

\* one caller that makes one call after the other, while time passes
NextRate ==
    \/ LimiterStep("p1")
    \/ RateTick

SpecRate == InitNone /\ [][NextRate]_vars

\* two callers on one instance, within one unit of time
NextRace == \E p \in Clients : LimiterStep(p)

SpecRace == InitNone /\ [][NextRace]_vars

---------------------------------------------------------------------------
(* POST /chat/stream: authMiddleware, rateLimitMiddleware('chat'), handler *)

\* a request arrives with or without the backend's key, and with or without
\* the x-user-id header
Arrive(q) ==
    /\ requests[q].pc = "idle"
    /\ \E key \in BOOLEAN, userId \in {"u1", "none"} :
          requests' = [requests EXCEPT
                          ![q] = [IdleRequest EXCEPT !.pc = "auth",
                                     !.key = key, !.userId = userId]]
    /\ UNCHANGED <<clock, rate_limits, cache, limiter, handled>>
    /\ UNCHANGED exceptRate

authMiddleware(q) ==
    /\ requests[q].pc = "auth"
    /\ LET r == requests[q]
       IN  IF ~r.key
           THEN requests' = [requests EXCEPT ![q].pc = "idle",
                                             ![q].status = 401]
           ELSE requests' = [requests EXCEPT
                    ![q].pc = "rate",
                    ![q].user = [id |-> IF r.userId = "none"
                                        THEN "api-client" ELSE r.userId,
                                 isApiKey |-> TRUE, premium |-> FALSE]]
    /\ UNCHANGED <<clock, rate_limits, cache, limiter, handled>>
    /\ UNCHANGED exceptRate

\* rateLimitMiddleware up to its first await
rateLimitMiddleware(q) ==
    /\ requests[q].pc = "rate"
    /\ LET user == requests[q].user
       IN  IF user.isApiKey
           THEN /\ requests' = [requests EXCEPT ![q].pc = "handler"]
                /\ UNCHANGED limiter
           ELSE /\ requests' = [requests EXCEPT ![q].pc = "rl_check"]
                /\ limiter' = [limiter EXCEPT ![q] =
                       IF user = NoUser
                       THEN StartCheck(<<"ip", "x">>, requests[q].action,
                                       "anonymous")
                       ELSE StartCheck(<<"user", user.id>>,
                                requests[q].action,
                                IF user.premium THEN "premium" ELSE "user")]
    /\ UNCHANGED <<clock, rate_limits, cache, handled>>
    /\ UNCHANGED exceptRate

\* rateLimitMiddleware after checkLimit: 429, or recordUsage
RateLimitDecide(q) ==
    /\ requests[q].pc = "rl_check"
    /\ limiter[q].pc = "idle"
    /\ IF ~limiter[q].result.allowed
       THEN /\ requests' = [requests EXCEPT ![q].pc = "idle",
                                            ![q].status = 429]
            /\ UNCHANGED limiter
       ELSE /\ requests' = [requests EXCEPT ![q].pc = "rl_record"]
            /\ limiter' = [limiter EXCEPT ![q] =
                   StartRecord(limiter[q].identifier, requests[q].action)]
    /\ UNCHANGED <<clock, rate_limits, cache, handled>>
    /\ UNCHANGED exceptRate

\* rateLimitMiddleware after recordUsage: next()
RateLimitNext(q) ==
    /\ requests[q].pc = "rl_record"
    /\ limiter[q].pc = "idle"
    /\ requests' = [requests EXCEPT ![q].pc = "handler"]
    /\ UNCHANGED <<clock, rate_limits, cache, limiter, handled>>
    /\ UNCHANGED exceptRate

\* the route handler starts to answer
ChatStreamRoute(q) ==
    /\ requests[q].pc = "handler"
    /\ handled' = [handled EXCEPT ![requests[q].user.id] = @ + 1]
    /\ requests' = [requests EXCEPT ![q].pc = "idle", ![q].status = 200]
    /\ UNCHANGED <<clock, rate_limits, cache, limiter>>
    /\ UNCHANGED exceptRate

\* the requests that got past authMiddleware
Admitted ==
    handled["u1"] + handled["api-client"]
        + Cardinality({q \in Conns : requests[q].pc \in {"rate", "handler"}})

Authenticate(q) ==
    /\ Admitted < MaxRequests
    /\ authMiddleware(q)

\* no request reaches checkLimit through this chain, so the later steps of
\* rateLimitMiddleware are not steps of it
NextChatRoute ==
    \E q \in Conns :
        \/ Arrive(q)
        \/ Authenticate(q)
        \/ rateLimitMiddleware(q)
        \/ ChatStreamRoute(q)

SpecChatRoute == InitNone /\ [][NextChatRoute]_vars

---------------------------------------------------------------------------
(* rateLimitMiddleware(action) as a unit: requests reach it with or        *)
(* without req.user, and a statement of one of its synchronous parts can   *)
(* throw.                                                                  *)

PlainUser == [id |-> "u1", isApiKey |-> FALSE, premium |-> FALSE]

\* the actions of the routes taken: one with two windows, one with a
\* daily limit of 0 and 1
MountedActions == {"chat", "channel_process"}

\* a request reaches the middleware of a route
Request(q) ==
    /\ requests[q].pc = "idle"
    /\ Len(rate_limits)
         + Cardinality({c \in Conns :
                           requests[c].pc \in {"rate", "rl_check",
                                               "rl_record"}}) < MaxEvents
    /\ \E action \in MountedActions, user \in {NoUser, PlainUser} :
          requests' = [requests EXCEPT
                          ![q] = [IdleRequest EXCEPT !.pc = "rate",
                                     !.user = user, !.action = action]]
    /\ UNCHANGED <<clock, rate_limits, cache, limiter, handled>>
    /\ UNCHANGED exceptRate

\* the catch block of the middleware: a statement before checkLimit, between
\* checkLimit and recordUsage, or after recordUsage threw; next() is called
RateLimitThrows(q) ==
    /\ requests[q].pc \in {"rate", "rl_check", "rl_record"}
    /\ limiter[q].pc = "idle"
    /\ requests' = [requests EXCEPT ![q].pc = "handler", ![q].threw = TRUE]
    /\ UNCHANGED <<clock, rate_limits, cache, limiter, handled>>
    /\ UNCHANGED exceptRate

\* the handler behind the middleware answers
Handler(q) ==
    /\ requests[q].pc = "handler"
    /\ requests' = [requests EXCEPT ![q].pc = "idle", ![q].status = 200]
    /\ UNCHANGED <<clock, rate_limits, cache, limiter, handled>>
    /\ UNCHANGED exceptRate

\* one connection: a request is answered before the next one arrives
NextMiddleware ==
    \E q \in {"q1"} :
        \/ Request(q)
        \/ rateLimitMiddleware(q)
        \/ CheckWindowProbe(q)
        \/ StoreCount(q)
        \/ StoreCountError(q)
        \/ StoreCountThrows(q)
        \/ CacheSet(q)
        \/ RateLimitDecide(q)
        \/ RecordInsert(q)
        \/ RecordInsertError(q)
        \/ RecordInvalidate(q)
        \/ RateLimitNext(q)
        \/ RateLimitThrows(q)
        \/ Handler(q)

SpecMiddleware == InitNone /\ [][NextMiddleware]_vars

---------------------------------------------------------------------------
(* QueueService.getChannelQueuePosition.  The rows of channel_queue carry  *)
(* the created_at the enqueueing process wrote (new Date(), milliseconds); *)
(* the select orders by created_at alone, so rows with the same created_at *)
(* come in an order the store chooses.                                     *)

Statuses == {"pending", "processing", "completed", "failed"}

QueueRows == [status : Statuses, created_at : 0..MaxCreated]

QueueTables == UNION {[1..n -> QueueRows] : n \in 0..MaxQueue}

PendingIds(rows) == {i \in DOMAIN rows : rows[i].status = "pending"}

\* .eq('status', 'pending').order('created_at', {ascending: true}): the lists
\* the store may answer with
PendingOrders(rows) ==
    LET ids == PendingIds(rows)
        n == Cardinality(ids)
    IN  {o \in [1..n -> ids] :
            /\ \A i, j \in 1..n : i # j => o[i] # o[j]
            /\ \A i, j \in 1..n :
                   i < j => rows[o[i]].created_at <= rows[o[j]].created_at}

\* pendingItems.findIndex(item => item.id === queueItemId): 0-based, -1 if
\* there is none
findIndex(items, id) ==
    IF \E i \in 1..Len(items) : items[i] = id
    THEN (CHOOSE i \in 1..Len(items) :
              items[i] = id /\ \A j \in 1..(i - 1) : items[j] # id) - 1
    ELSE -1

\* the select of the pending rows is answered
SelectPending ==
    /\ position.pc = "idle"
    /\ \E rows \in QueueTables, id \in 1..(MaxQueue + 1) :
          \E o \in PendingOrders(rows) :
              position' = [IdlePosition EXCEPT
                              !.pc = "selected", !.rows = rows,
                              !.queueItemId = id, !.pendingItems = o,
                              !.answered = TRUE]
    /\ UNCHANGED exceptPosition

\* the select fails: data is undefined
SelectPendingError ==
    /\ position.pc = "idle"
    /\ \E rows \in QueueTables, id \in 1..(MaxQueue + 1) :
          position' = [IdlePosition EXCEPT !.pc = "selected", !.rows = rows,
                                           !.queueItemId = id]
    /\ UNCHANGED exceptPosition

\* getChannelQueuePosition after its await
GetChannelQueuePosition ==
    /\ position.pc = "selected"
    /\ LET pos == findIndex(position.pendingItems, position.queueItemId) + 1
       IN  position' = [position EXCEPT
               !.pc = "done",
               !.result = IF ~position.answered THEN Null
                          ELSE IF pos > 0 THEN pos ELSE Null]
    /\ UNCHANGED exceptPosition

NextPosition ==
    \/ SelectPending
    \/ SelectPendingError
    \/ GetChannelQueuePosition

SpecPosition == InitNone /\ [][NextPosition]_vars

---------------------------------------------------------------------------
(* CacheService (cacheService.js): get, set and cleanupExpired on one key, *)
(* called one after the other on one instance while time passes.  `last`   *)
(* is the entry of the latest set, `fresh` says that nothing happened      *)
(* since that set returned; `issuedAt` and `afterSet` describe the get     *)
(* whose answer is in `result`.                                            *)

CacheData == {"v1", "v2"}

Entry(data, expiresAt) ==
    [held |-> TRUE, data |-> data, expiresAt |-> expiresAt]

\* set up to its await: the memory tier is written
CacheSetMemory ==
    /\ cacheService.pc = "idle"
    /\ \E data \in CacheData, duration \in 1..MaxDuration :
          LET expiresAt == cacheService.now + duration
          IN  cacheService' = [cacheService EXCEPT
                  !.pc = "upsert", !.data = data, !.expiresAt = expiresAt,
                  !.memoryCache = Entry(data, expiresAt),
                  !.last = Entry(data, expiresAt),
                  !.answered = FALSE, !.fresh = FALSE]
    /\ UNCHANGED exceptCache

\* set: the store executes the upsert
CacheUpsert ==
    /\ cacheService.pc = "upsert"
    /\ cacheService' = [cacheService EXCEPT
           !.pc = "idle", !.fresh = TRUE,
           !.cache = Entry(cacheService.data, cacheService.expiresAt)]
    /\ UNCHANGED exceptCache

\* set: the upsert fails; the answer is not read, a rejection is logged
CacheUpsertError ==
    /\ cacheService.pc = "upsert"
    /\ cacheService' = [cacheService EXCEPT !.pc = "idle", !.fresh = TRUE]
    /\ UNCHANGED exceptCache

\* get up to its await: the memory tier
CacheGetMemory ==
    /\ cacheService.pc = "idle"
    /\ LET c == cacheService
           memCached == c.memoryCache
           call == [c EXCEPT !.issuedAt = c.now, !.afterSet = c.fresh,
                             !.fresh = FALSE, !.answered = FALSE]
       IN  IF memCached.held /\ memCached.expiresAt > c.now
           THEN cacheService' = [call EXCEPT !.answered = TRUE,
                                             !.result = memCached.data]
           ELSE cacheService' = [call EXCEPT !.pc = "select"]
    /\ UNCHANGED exceptCache

\* get: the select on the store tier is answered
CacheGetStore ==
    /\ cacheService.pc = "select"
    /\ LET c == cacheService
           row == c.cache
       IN  IF ~row.held
           THEN cacheService' = [c EXCEPT !.pc = "idle", !.answered = TRUE,
                                          !.result = "null"]
           ELSE IF row.expiresAt > c.now
           THEN cacheService' = [c EXCEPT !.pc = "idle", !.answered = TRUE,
                                          !.result = row.data,
                                          !.memoryCache = row]
           ELSE cacheService' = [c EXCEPT !.pc = "delete"]
    /\ UNCHANGED exceptCache

\* get: the select fails
CacheGetStoreError ==
    /\ cacheService.pc = "select"
    /\ cacheService' = [cacheService EXCEPT !.pc = "idle", !.answered = TRUE,
                                            !.result = "null"]
    /\ UNCHANGED exceptCache

\* get: the expired row is deleted (or the delete fails); null either way
CacheGetDelete ==
    /\ cacheService.pc = "delete"
    /\ \E ok \in BOOLEAN :
          cacheService' = [cacheService EXCEPT
              !.pc = "idle", !.answered = TRUE, !.result = "null",
              !.cache = IF ok THEN NoEntry ELSE cacheService.cache]
    /\ UNCHANGED exceptCache

\* cleanupExpired: memory entries with expiresAt <= now and store rows with
\* expires_at < now go
CleanupExpired ==
    /\ cacheService.pc = "idle"
    /\ LET c == cacheService
       IN  cacheService' = [c EXCEPT
               !.fresh = FALSE,
               !.memoryCache = IF c.memoryCache.held
                                    /\ c.memoryCache.expiresAt <= c.now
                                THEN NoEntry ELSE c.memoryCache,
               !.cache = IF c.cache.held /\ c.cache.expiresAt < c.now
                          THEN NoEntry ELSE c.cache]
    /\ UNCHANGED exceptCache

\* time passes
CacheTick ==
    /\ cacheService.now < MaxCacheTime
    /\ cacheService' = [cacheService EXCEPT !.now = @ + 1, !.fresh = FALSE]
    /\ UNCHANGED exceptCache

NextCache ==
    \/ CacheSetMemory
    \/ CacheUpsert
    \/ CacheUpsertError
    \/ CacheGetMemory
    \/ CacheGetStore
    \/ CacheGetStoreError
    \/ CacheGetDelete
    \/ CleanupExpired
    \/ CacheTick

SpecCache == InitNone /\ [][NextCache]_vars

---------------------------------------------------------------------------
(* Retrieval: hybridChunkSearch and hybridChannelSearch (ragSearch.js, the *)
(* functions the chat service calls) and RAGService.searchVideoChunks and  *)
(* searchChannelChunks (ragService.js).  A row of transcript_chunks is     *)
(* modelled by its video, its cosine similarity with the query in          *)
(* hundredths, whether one of its keywords matches a query keyword, and    *)
(* the number of query keywords in its text preview; its id is its place   *)
(* in the table.  Scores are in hundredths.  Array.prototype.sort is       *)
(* stable: rows with equal scores keep their order.                        *)

HybridBoost       == 30   \* + 0.3 for a keyword match in the semantic set
KeywordBase       == 50   \* 0.5 for a keyword match outside of it
PreviewBoost      == 10   \* + 0.1 per query keyword in the text preview
VideoThreshold    == 70   \* match_threshold of search_transcript_chunks
ChannelThreshold  == 65   \* match_threshold of search_channel_chunks
DiversifyVideos   == 3    \* Math.min(videoChunks.size, 3)

SearchVideos == {"w1", "w2", "w3", "x1"}

\* videos.channel_id
ChannelOf(v) == IF v = "x1" THEN "c2" ELSE "c1"

ChunkRow(v, sim, kw, hits) ==
    [video_id |-> v, similarity |-> sim, keywords |-> kw, hits |-> hits]

\* the rows tables are made of: a row matches the query's keywords with its
\* keywords and twice in its preview, or not at all
ChunkRows == {ChunkRow(v, sim, kw, IF kw THEN 2 ELSE 0) :
                 v \in {"w1", "w2", "x1"}, sim \in {60, 80},
                 kw \in BOOLEAN}

\* two chunks of one video: A (0.80, no keyword) and B (0.60, two keywords)
BoostExample == <<ChunkRow("w1", 80, FALSE, 0), ChunkRow("w1", 60, TRUE, 2)>>

\* candidates of three videos, seven of them of the first and the best
DiversifyExample ==
    [i \in 1..13 |->
        IF i <= 7 THEN ChunkRow("w1", 99 - i, FALSE, 0)
        ELSE IF i <= 10 THEN ChunkRow("w2", 90 - i, FALSE, 0)
        ELSE ChunkRow("w3", 90 - i, FALSE, 0)]

ChunkTables == UNION {[1..n -> ChunkRows] : n \in 0..MaxCandidates}

\* the rows as the store answers them, with id and a score still to be set
Loaded(table) ==
    [i \in 1..Len(table) |->
        [id |-> i, video_id |-> table[i].video_id,
         similarity |-> table[i].similarity, keywords |-> table[i].keywords,
         hits |-> table[i].hits, score |-> 0]]

\* a sort that puts the lowest score first
SortAscending(seq) ==
    LET Insert(x, sorted) ==
            LET n == Cardinality({j \in 1..Len(sorted) :
                                     sorted[j].score <= x.score})
            IN  SubSeq(sorted, 1, n) \o <<x>>
                    \o SubSeq(sorted, n + 1, Len(sorted))
        F[i \in 0..Len(seq)] ==
            IF i = 0 THEN <<>> ELSE Insert(seq[i], F[i - 1])
    IN  F[Len(seq)]

\* sort((a, b) => b.score - a.score)
SortByScore(seq) ==
    LET Insert(x, sorted) ==
            LET n == Cardinality({j \in 1..Len(sorted) :
                                     sorted[j].score >= x.score})
            IN  SubSeq(sorted, 1, n) \o <<x>>
                    \o SubSeq(sorted, n + 1, Len(sorted))
        F[i \in 0..Len(seq)] ==
            IF i = 0 THEN <<>> ELSE Insert(seq[i], F[i - 1])
    IN  F[Len(seq)]

\* sort((a, b) => b.similarity - a.similarity)
SortBySimilarity(seq) ==
    SortByScore([i \in 1..Len(seq) |->
                    [seq[i] EXCEPT !.score = seq[i].similarity]])

HasId(seq, id) == \E i \in 1..Len(seq) : seq[i].id = id

\* hybridChunkSearch(videoId, query, topK) over the rows of the table, for a
\* query that has keywords
hybridChunkSearch(table, videoId, topK) ==
    LET IsOfVideo(c) == c.video_id = videoId
        IsKeyword(c) == c.keywords
        allChunks == SelectSeq(Loaded(table), IsOfVideo)
        resultsWithSimilarity == Limit(SortBySimilarity(allChunks), topK)
        keywordResults == SelectSeq(allChunks, IsKeyword)
        \* allResults after the first i keyword results
        allResults[i \in 0..Len(keywordResults)] ==
            IF i = 0 THEN resultsWithSimilarity
            ELSE LET prev == allResults[i - 1]
                     r == keywordResults[i]
                 IN  IF HasId(prev, r.id)
                     THEN [j \in 1..Len(prev) |->
                              IF prev[j].id = r.id
                              THEN [prev[j] EXCEPT !.score = @ + HybridBoost]
                              ELSE prev[j]]
                     ELSE Append(prev, [r EXCEPT !.score = KeywordBase])
    IN  Limit(SortByScore(allResults[Len(keywordResults)]), topK)

\* hybridChannelSearch(channelId, query, topK); the chunks it returns carry
\* their similarity and no other score
hybridChannelSearch(table, channelId, topK) ==
    LET InChannel(c) == ChannelOf(c.video_id) = channelId
        allChunks == SelectSeq(Loaded(table), InChannel)
    IN  Limit(SortBySimilarity(allChunks), topK)

\* the rpc search_transcript_chunks / search_channel_chunks: the rows of the
\* video or channel above the threshold, best first, at most match_count
MatchChunks(chunks, match_threshold, match_count) ==
    LET Above(c) == c.similarity > match_threshold
    IN  Limit(SortBySimilarity(SelectSeq(chunks, Above)), match_count)

\* score: chunk.similarity + (keywordMatches * 0.1)
Enhanced(chunks) ==
    [i \in 1..Len(chunks) |->
        [chunks[i] EXCEPT !.score = chunks[i].similarity
                                       + chunks[i].hits * PreviewBoost]]

\* RAGService.searchVideoChunks(videoId, query, limit)
searchVideoChunks(table, videoId, limit) ==
    LET IsOfVideo(c) == c.video_id = videoId
        chunks == MatchChunks(SelectSeq(Loaded(table), IsOfVideo),
                              VideoThreshold, limit)
    IN  SortByScore(Enhanced(chunks))

\* Math.ceil(a / b)
Ceil(a, b) == (a + b - 1) \div b

\* the keys of videoChunks in insertion order
VideoOrder(chunks) ==
    LET F[i \in 0..Len(chunks)] ==
            IF i = 0 THEN <<>>
            ELSE IF \E j \in 1..Len(F[i - 1]) :
                        F[i - 1][j] = chunks[i].video_id
                 THEN F[i - 1]
                 ELSE Append(F[i - 1], chunks[i].video_id)
    IN  F[Len(chunks)]

\* RAGService.searchChannelChunks(channelId, query, limit)
searchChannelChunks(table, channelId, limit) ==
    LET InChannel(c) == ChannelOf(c.video_id) = channelId
        chunks == Enhanced(MatchChunks(SelectSeq(Loaded(table), InChannel),
                                       ChannelThreshold, limit * 2))
        order == VideoOrder(chunks)
        size == Len(order)
        maxChunksPerVideo ==
            Ceil(limit, IF size < DiversifyVideos THEN size
                        ELSE DiversifyVideos)
        finalChunks[i \in 0..size] ==
            IF i = 0 THEN <<>>
            ELSE LET OfVideo(c) == c.video_id = order[i]
                 IN  finalChunks[i - 1]
                         \o Limit(SortByScore(SelectSeq(chunks, OfVideo)),
                                  maxChunksPerVideo)
    IN  IF size = 0 THEN <<>>
        ELSE Limit(SortByScore(finalChunks[size]), limit)

SearchInputs ==
    {<<t, k>> : t \in ChunkTables, k \in 1..MaxK}
        \cup {<<BoostExample, 5>>, <<DiversifyExample, 9>>}

Searched(fn, in, result) ==
    search' = [pc |-> "done", fn |-> fn, k |-> in[2], table |-> in[1],
               result |-> result]

HybridChunkSearch ==
    /\ search.pc = "idle"
    /\ \E in \in SearchInputs :
          Searched("hybridChunkSearch", in,
                   hybridChunkSearch(in[1], "w1", in[2]))
    /\ UNCHANGED exceptSearch

HybridChannelSearch ==
    /\ search.pc = "idle"
    /\ \E in \in SearchInputs :
          Searched("hybridChannelSearch", in,
                   hybridChannelSearch(in[1], "c1", in[2]))
    /\ UNCHANGED exceptSearch

SearchVideoChunks ==
    /\ search.pc = "idle"
    /\ \E in \in SearchInputs :
          Searched("searchVideoChunks", in,
                   searchVideoChunks(in[1], "w1", in[2]))
    /\ UNCHANGED exceptSearch

SearchChannelChunks ==
    /\ search.pc = "idle"
    /\ \E in \in SearchInputs :
          Searched("searchChannelChunks", in,
                   searchChannelChunks(in[1], "c1", in[2]))
    /\ UNCHANGED exceptSearch

NextSearch ==
    \/ HybridChunkSearch
    \/ HybridChannelSearch
    \/ SearchVideoChunks
    \/ SearchChannelChunks

SpecSearch == InitNone /\ [][NextSearch]_vars

---------------------------------------------------------------------------
(* ErrorTracker: track, trackApiError, sanitizeBody and flush.             *)
(* A key is the sequence of its characters, so that toLowerCase and        *)
(* includes are computed as the code computes them.  An error event is     *)
(* its context and the number of its track call; `flights` holds, for each *)
(* flush whose insert is awaited, the events it took from the buffer and   *)
(* the number of track calls made before it.                               *)

FlushAt == 10   \* track flushes when the buffer holds 10 events

KeyPassword      == <<"p", "a", "s", "s", "w", "o", "r", "d">>
KeyToken         == <<"t", "o", "k", "e", "n">>
KeyApiKey        == <<"a", "p", "i", "K", "e", "y">>
KeySecret        == <<"s", "e", "c", "r", "e", "t">>
KeyAuthorization == <<"a", "u", "t", "h", "o", "r", "i", "z", "a", "t", "i",
                      "o", "n">>
KeyUpperPassword == <<"P", "a", "s", "s", "w", "o", "r", "d">>
KeyAccessToken   == <<"a", "c", "c", "e", "s", "s", "T", "o", "k", "e", "n">>
KeyName          == <<"n", "a", "m", "e">>

sensitiveKeys ==
    {KeyPassword, KeyToken, KeyApiKey, KeySecret, KeyAuthorization}

BodyKeys == sensitiveKeys \cup {KeyUpperPassword, KeyAccessToken, KeyName}

\* String.prototype.toLowerCase on the letters that occur
toLowerCase(str) ==
    [i \in 1..Len(str) |->
        IF str[i] = "K" THEN "k"
        ELSE IF str[i] = "P" THEN "p"
        ELSE IF str[i] = "T" THEN "t"
        ELSE str[i]]

\* String.prototype.includes
StringIncludes(str, sub) ==
    \E i \in 0..(Len(str) - Len(sub)) :
        SubSeq(str, i + 1, i + Len(sub)) = sub

\* req.body: absent, or an object with up to MaxKeys keys; req.query: empty
\* or with a token
NoBody == [given |-> FALSE, entries |-> <<>>]

Bodies ==
    {NoBody} \cup
    {[given |-> TRUE, entries |-> [key \in S |-> "original"]] :
        S \in {T \in SUBSET BodyKeys : Cardinality(T) <= MaxKeys}}

Queries == {<<>>, [key \in {KeyToken} |-> "original"]}

sanitizeBody(body) ==
    IF ~body.given THEN NoBody
    ELSE [given |-> TRUE,
          entries |-> [key \in DOMAIN body.entries |->
                          IF \E sensitive \in sensitiveKeys :
                                 StringIncludes(toLowerCase(key), sensitive)
                          THEN "[REDACTED]"
                          ELSE body.entries[key]]]

\* an in-flight flush is removed from the flushes that await their insert
RemoveAt(seq, i) == SubSeq(seq, 1, i - 1) \o SubSeq(seq, i + 1, Len(seq))

\* track: the event is pushed; with 10 events in the buffer flush is called,
\* which takes the buffer.  `n` numbers the track calls.
Push(context) ==
    LET errorData == [n |-> errorTracker.tracked + 1, context |-> context]
        buffer    == Append(errorTracker.errorBuffer, errorData)
    IN  IF Len(buffer) >= FlushAt
        THEN errorTracker' = [errorTracker EXCEPT
                 !.tracked = @ + 1, !.errorBuffer = <<>>,
                 !.flights = Append(@, [errors  |-> buffer,
                                        tracked |-> errorTracker.tracked + 1])]
        ELSE errorTracker' = [errorTracker EXCEPT
                 !.tracked = @ + 1, !.errorBuffer = buffer]

\* room for one more flush in flight
FlightFree == Len(errorTracker.flights) < MaxFlights

\* trackApiError(req, res, error), called by the error handler of the server
TrackApiError ==
    /\ errorTracker.tracked < MaxErrors
    /\ FlightFree
    /\ \E body \in Bodies, query \in Queries :
          Push([type |-> "api", query |-> query, body |-> sanitizeBody(body)])
    /\ UNCHANGED exceptTracker

\* track(error, {type: ...}), called for background jobs and uncaught errors
Track ==
    /\ errorTracker.tracked < MaxErrors
    /\ FlightFree
    /\ \E type \in {"background_job", "uncaughtException"} :
          Push([type |-> type, query |-> <<>>, body |-> NoBody])
    /\ UNCHANGED exceptTracker

\* flush up to its await (every 30 s, or at shutdown): the buffer is taken
TakeBuffer ==
    errorTracker' = [errorTracker EXCEPT
        !.errorBuffer = <<>>, !.flushes = @ + 1,
        !.flights = Append(@, [errors  |-> errorTracker.errorBuffer,
                               tracked |-> errorTracker.tracked])]

Flush ==
    /\ "flush" \in shutdown.intervals
    /\ errorTracker.errorBuffer # <<>>
    /\ FlightFree
    /\ errorTracker.flushes < MaxFlushes
    /\ TakeBuffer
    /\ UNCHANGED exceptTracker

\* flush: the insert into error_logs
FlushInsert ==
    /\ \E i \in 1..Len(errorTracker.flights) :
          errorTracker' = [errorTracker EXCEPT
              !.flights = RemoveAt(@, i),
              !.error_logs = @ \o errorTracker.flights[i].errors]
    /\ UNCHANGED exceptTracker

\* unshift(...errors): the events are put back in front of the buffer
PutBack(errors, buffer) == errors \o buffer

\* history: the pairs <<a, b>> where event a failed to flush and event b
\* was tracked during that flush
Overtaken(flight) ==
    {<<flight.errors[i].n, b>> :
        i \in 1..Len(flight.errors),
        b \in (flight.tracked + 1)..errorTracker.tracked}

\* flush: the insert fails (error returned or thrown)
FlushInsertError ==
    /\ errorTracker.failures < MaxFailures
    /\ \E i \in 1..Len(errorTracker.flights) :
          errorTracker' = [errorTracker EXCEPT
              !.failures = @ + 1,
              !.flights = RemoveAt(@, i),
              !.errorBuffer = PutBack(errorTracker.flights[i].errors, @),
              !.ahead = @ \cup Overtaken(errorTracker.flights[i])]
    /\ UNCHANGED exceptTracker

NextTracker ==
    \/ TrackApiError
    \/ Track
    \/ Flush
    \/ FlushInsert
    \/ FlushInsertError

SpecTracker == InitNone /\ [][NextTracker]_vars

\* the background job of the server tracks an error (server.js)
TrackJobError ==
    /\ errorTracker.tracked < MaxTracked
    /\ FlightFree
    /\ Push([type |-> "background_job", query |-> <<>>, body |-> NoBody])
    /\ UNCHANGED exceptTracker

NextFlush ==
    \/ TrackJobError
    \/ Flush
    \/ FlushInsert
    \/ FlushInsertError

SpecFlush == InitNone /\ [][NextFlush]_vars

---------------------------------------------------------------------------
(* VideoProcessor.generateEmbeddings and the insert of storeChunks.  A     *)
(* chunk is its chunk_index; the vector the provider returns for a chunk   *)
(* is written <<"vector", chunk_index>>.  `failed` is history: the chunks  *)
(* whose provider call threw.                                              *)

\* chunks.slice(i, i + batchSize)
Slice(seq, from, to) ==
    SubSeq(seq, from + 1, IF to < Len(seq) THEN to ELSE Len(seq))

\* response.data[0].embedding
Vector(chunk) == <<"vector", chunk.chunk_index>>

\* Promise.all rejects with the first failure
RejectBatch(batch, calls) ==
    IF \E j \in 1..Len(batch) : calls[j] = "failed" THEN <<>>
    ELSE [j \in 1..Len(batch) |->
             [chunk_index |-> batch[j].chunk_index,
              embedding |-> Vector(batch[j])]]

\* what Promise.all(batch.map(...)) resolves to: {...chunk, embedding} for
\* every chunk of the batch, in the order of the batch
Embeddings(batch, calls) ==
    [j \in 1..Len(batch) |->
        [chunk_index |-> batch[j].chunk_index,
         embedding |-> IF calls[j] = "ok" THEN Vector(batch[j]) ELSE "null"]]

\* generateEmbeddings(chunks) is called
StartEmbeddings ==
    /\ embedding.pc = "idle"
    /\ \E n \in 0..MaxInput :
          embedding' = [IdleEmbed EXCEPT
              !.pc = "loop",
              !.chunks = [j \in 1..n |-> [chunk_index |-> j - 1]]]
    /\ UNCHANGED exceptEmbed

\* the head of the loop: the next batch is cut and its calls are sent, or
\* the function returns
EmbedBatch ==
    /\ embedding.pc = "loop"
    /\ IF embedding.i < Len(embedding.chunks)
       THEN LET batch == Slice(embedding.chunks, embedding.i,
                               embedding.i + BatchSize)
            IN  embedding' = [embedding EXCEPT
                    !.pc = "await", !.batch = batch,
                    !.calls = [j \in 1..Len(batch) |-> "pending"]]
       ELSE embedding' = [embedding EXCEPT !.pc = "done"]
    /\ UNCHANGED exceptEmbed

\* openai.embeddings.create answers for a chunk of the batch
EmbeddingCreated ==
    /\ embedding.pc = "await"
    /\ \E j \in 1..Len(embedding.calls) :
          /\ embedding.calls[j] = "pending"
          /\ embedding' = [embedding EXCEPT !.calls[j] = "ok"]
    /\ UNCHANGED exceptEmbed

\* openai.embeddings.create throws for a chunk of the batch; the catch block
\* of the call returns the chunk with embedding null
EmbeddingThrows ==
    /\ embedding.pc = "await"
    /\ \E j \in 1..Len(embedding.calls) :
          /\ embedding.calls[j] = "pending"
          /\ embedding' = [embedding EXCEPT
                 !.calls[j] = "failed",
                 !.failed = @ \cup {embedding.batch[j].chunk_index}]
    /\ UNCHANGED exceptEmbed

\* all calls of the batch are settled: the results are pushed; a delay
\* follows if there is another batch
BatchSettled ==
    /\ embedding.pc = "await"
    /\ \A j \in 1..Len(embedding.calls) : embedding.calls[j] # "pending"
    /\ embedding' = [embedding EXCEPT
           !.chunksWithEmbeddings =
               @ \o Embeddings(embedding.batch, embedding.calls),
           !.pc = IF embedding.i + BatchSize < Len(embedding.chunks)
                  THEN "delay" ELSE "loop",
           !.i = IF embedding.i + BatchSize < Len(embedding.chunks)
                 THEN @ ELSE @ + BatchSize]
    /\ UNCHANGED exceptEmbed

\* the delay of one second between two batches is over
RateLimitDelay ==
    /\ embedding.pc = "delay"
    /\ embedding' = [embedding EXCEPT !.pc = "loop", !.i = @ + BatchSize]
    /\ UNCHANGED exceptEmbed

\* storeChunks: the chunk records, embedding null included, are inserted in
\* one request
InsertChunkRecords ==
    /\ embedding.pc = "done"
    /\ embedding' = [embedding EXCEPT
           !.pc = "stored",
           !.stored = [j \in 1..Len(embedding.chunksWithEmbeddings) |->
               [chunk_index |->
                    embedding.chunksWithEmbeddings[j].chunk_index,
                embedding |-> embedding.chunksWithEmbeddings[j].embedding]]]
    /\ UNCHANGED exceptEmbed

\* storeChunks: the store rejects the insert; 'Failed to store chunks'
InsertChunkRecordsError ==
    /\ embedding.pc = "done"
    /\ embedding' = [embedding EXCEPT !.pc = "failed"]
    /\ UNCHANGED exceptEmbed

NextEmbed ==
    \/ StartEmbeddings
    \/ EmbedBatch
    \/ EmbeddingCreated
    \/ EmbeddingThrows
    \/ BatchSettled
    \/ RateLimitDelay
    \/ InsertChunkRecords
    \/ InsertChunkRecordsError

SpecEmbed == InitNone /\ [][NextEmbed]_vars

---------------------------------------------------------------------------
(* VideoProcessor.downloadWithRetry.  An error of getTranscript is its     *)
(* status and whether its message contains '429'; delays are in ms.        *)
(* `attempts`, `waits` and `errors` are history.                           *)

Retries      == 3      \* retries = 3
InitialDelay == 5000   \* delay = 5000

\* the errors YoutubeTranscriptApi.getTranscript throws
TranscriptErrors == [status : {0, 429, 500}, message429 : BOOLEAN]

\* error.status === 429 || error.message?.includes('429')
IsRateLimited(error) == error.status = 429 \/ error.message429

\* a delay that is not doubled
SameDelay(delay) == delay

\* delay *= 2
NextDelay(delay) == delay * 2

\* downloadWithRetry(videoId) is called
StartDownload ==
    /\ download.pc = "idle"
    /\ download' = [IdleDownload EXCEPT !.pc = "attempt",
                                        !.delay = InitialDelay]
    /\ UNCHANGED exceptDownload

\* getTranscript answers: the transcript is returned
GetTranscript ==
    /\ download.pc = "attempt"
    /\ download.i < Retries
    /\ download' = [download EXCEPT !.pc = "returned", !.attempts = @ + 1]
    /\ UNCHANGED exceptDownload

\* getTranscript throws: a rate-limit error before the last attempt is
\* followed by a wait, every other error is thrown to the caller
GetTranscriptThrows ==
    /\ download.pc = "attempt"
    /\ download.i < Retries
    /\ \E error \in TranscriptErrors \ {NoError} :
          IF IsRateLimited(error) /\ download.i < Retries - 1
          THEN download' = [download EXCEPT
                   !.pc = "wait", !.attempts = @ + 1,
                   !.errors = Append(@, error)]
          ELSE download' = [download EXCEPT
                   !.pc = "thrown", !.attempts = @ + 1,
                   !.errors = Append(@, error), !.thrown = error]
    /\ UNCHANGED exceptDownload

\* the timer of the wait fires: the delay is doubled and the loop goes on
Backoff ==
    /\ download.pc = "wait"
    /\ download' = [download EXCEPT
           !.pc = "attempt", !.i = @ + 1,
           !.waits = Append(@, download.delay),
           !.delay = NextDelay(@)]
    /\ UNCHANGED exceptDownload

\* the caller is done with the result
DownloadOver ==
    /\ download.pc \in {"returned", "thrown"}
    /\ download' = IdleDownload
    /\ UNCHANGED exceptDownload

NextDownload ==
    \/ StartDownload
    \/ GetTranscript
    \/ GetTranscriptThrows
    \/ Backoff
    \/ DownloadOver

SpecDownload == InitNone /\ [][NextDownload]_vars

---------------------------------------------------------------------------
(* QueueService.processVideoQueue, the 30 s tick over the queued videos.   *)
(* videoQueue.rows are the rows of videos with processing_queued = true in *)
(* the order of processing_queued_at.  A video either fails on every       *)
(* attempt (its row stays as it is, but for processing_error) or is        *)
(* processed at its first one (transcript_cached = true).  `dispatched` is *)
(* history: the videos handed to processVideo so far.                      *)

QueueLimit == 5   \* processVideoQueue(limit = 5)

QueuedVideos == 1..MaxQueued

\* .eq('processing_queued', true).eq('transcript_cached', false)
\* .order('processing_queued_at', {ascending: true}): the places in rows
EligibleVideos ==
    {j \in 1..Len(videoQueue.rows) : ~videoQueue.rows[j].transcript_cached}

\* .limit(limit): the oldest of them
OldestEligible(limit) ==
    {j \in EligibleVideos :
        Cardinality({h \in EligibleVideos : h < j}) < limit}

\* enqueueVideo(videoId, userId) for a video without a row: the upsert
\* writes processing_queued = true and processing_queued_at = now
EnqueueVideo ==
    /\ Len(videoQueue.rows) < MaxQueued
    /\ \E fails \in BOOLEAN :
          videoQueue' = [videoQueue EXCEPT
              !.rows = Append(@, [youtube_id |-> Len(videoQueue.rows) + 1,
                                  transcript_cached |-> FALSE,
                                  fails |-> fails])]
    /\ UNCHANGED exceptTick

\* a tick of processVideoQueue: every selected video is handed to
\* processVideo, which sets transcript_cached = true unless it fails
ProcessVideoQueue ==
    /\ LET queuedVideos == OldestEligible(QueueLimit)
       IN  /\ queuedVideos # {}
           /\ videoQueue' = [videoQueue EXCEPT
                  !.rows = [j \in 1..Len(@) |->
                      IF j \in queuedVideos /\ ~@[j].fails
                      THEN [@[j] EXCEPT !.transcript_cached = TRUE]
                      ELSE @[j]],
                  !.dispatched = @ \cup
                      {videoQueue.rows[j].youtube_id : j \in queuedVideos}]
    /\ UNCHANGED exceptTick

NextTick ==
    \/ EnqueueVideo
    \/ ProcessVideoQueue

SpecTick == InitNone /\ [][NextTick]_vars

\* the timer fires every 30 s and the store answers
SpecTickFair == SpecTick /\ WF_vars(ProcessVideoQueue)

---------------------------------------------------------------------------
(* VideoProcessor.checkNewVideos, the job of every six hours.  A run is    *)
(* one step: what it does is fixed by the answer of its first select.      *)
(* newVideos holds, of the last run, the channels that had status ready    *)
(* when it selected (history), the channels it went through and the ones   *)
(* whose new videos it processed.                                          *)

ChannelLimit == 10   \* .limit(10)

\* the status checkNewVideos selects on
CheckedStatus == "completed"

\* .from('channels').select(...).eq('status', 'completed')
\* .order('last_indexed_at').limit(10)
ChannelsToCheck ==
    LET selected == {c \in ChannelIds : channels[c] = CheckedStatus}
    IN  IF Cardinality(selected) <= ChannelLimit THEN selected
        ELSE CHOOSE S \in SUBSET selected : Cardinality(S) = ChannelLimit

\* a run of checkNewVideos: for each selected channel the newest video is
\* read and YouTube is asked for the videos published after it; with an
\* answer the new videos are upserted and processed, without one the loop
\* goes on
CheckNewVideos ==
    /\ newVideos.runs < MaxChecks
    /\ \E answered \in SUBSET ChannelsToCheck :
          newVideos' = [runs |-> newVideos.runs + 1,
                        ready |-> {c \in ChannelIds : channels[c] = "ready"},
                        considered |-> ChannelsToCheck,
                        processed |-> answered]
    /\ UNCHANGED exceptCheck

\* the dispatcher and processChannel on one instance bring channels to
\* ready; the job runs at any moment
NextNewVideos ==
    \/ TickProcessPending("a1")
    \/ AcqInsert("a1") \/ AcqInsertError("a1") \/ AcqRecord("a1")
    \/ ProcessChannel("a1")
    \/ Release("a1")
    \/ CheckNewVideos

SpecNewVideos == InitTwo /\ [][NextNewVideos]_vars

---------------------------------------------------------------------------
(* Shutdown of the process of instance A.  lockService.js and the error    *)
(* tracker each register a handler for SIGINT and SIGTERM; a signal runs   *)
(* both handlers up to their first await, one after the other.  The two    *)
(* synchronous parts write different objects, so both orders of            *)
(* registration give the same state.                                       *)

Process == "A"

\* the signal arrives.  Lock handler: releaseAll calls release for every key
\* of this.locks, each of which reads its lock id and sends its delete.
\* Tracker handler: shutdown clears flushInterval and calls flush, which
\* takes the buffer unless it is empty.
Signal ==
    /\ shutdown.pc = "running"
    /\ shutdown' = [shutdown EXCEPT
           !.pc = "signalled",
           !.intervals = @ \ {"flush"},
           !.releases = locks[Process],
           !.held = {locks[Process][r] : r \in Resources} \ {NoLock}]
    /\ IF errorTracker.errorBuffer # <<>>
       THEN TakeBuffer
       ELSE UNCHANGED errorTracker
    /\ UNCHANGED <<coreVars, positionVars, cacheVars, searchVars, embedVars,
                   downloadVars, tickVars,
               checkVars>>

\* a release of releaseAll: the delete, then the local cleanup
ReleaseAllDelete(r) ==
    /\ shutdown.pc = "signalled"
    /\ shutdown.releases[r] # NoLock
    /\ processing_locks' = DeleteLock(r, shutdown.releases[r])
    /\ released' = released \cup {shutdown.releases[r]}
    /\ CleanupLocal(Process, r)
    /\ shutdown' = [shutdown EXCEPT !.releases[r] = NoLock]
    /\ UNCHANGED <<now, autoRel, nextLockId, granted, task, runs, queueVars,
                   callVars, videoVars, chunkVars, rateVars, chatVars,
                   ingestVars, positionVars, cacheVars, searchVars,
                   trackerVars, embedVars, downloadVars, tickVars,
               checkVars>>

\* a release of releaseAll: the store reports an error, release returns false
ReleaseAllError(r) ==
    /\ shutdown.pc = "signalled"
    /\ shutdown.releases[r] # NoLock
    /\ shutdown' = [shutdown EXCEPT !.releases[r] = NoLock]
    /\ UNCHANGED <<coreVars, positionVars, cacheVars, searchVars,
                   trackerVars, embedVars, downloadVars, tickVars,
               checkVars>>

\* lock handler: Promise.all of the releases is settled; process.exit(0)
Exit ==
    /\ shutdown.pc = "signalled"
    /\ \A r \in Resources : shutdown.releases[r] = NoLock
    /\ shutdown' = [shutdown EXCEPT !.pc = "exited"]
    /\ UNCHANGED <<coreVars, positionVars, cacheVars, searchVars,
                   trackerVars, embedVars, downloadVars, tickVars,
               checkVars>>

\* the process runs
Alive == shutdown.pc # "exited"

\* the process of instance A holds at most one lease, tracks errors and
\* flushes them, and is sent a signal.  The clock stands still.
NextShutdown ==
    \/ Alive /\ StartProcessChannel("a1", 1)
    \/ Alive /\ (Acquire("a1") \/ CriticalSection("a1") \/ Release("a1"))
    \/ Alive /\ Track
    \/ Alive /\ Flush
    \/ FlushInsert
    \/ Alive /\ FlushInsertError
    \/ Signal
    \/ \E r \in Resources : ReleaseAllDelete(r) \/ ReleaseAllError(r)
    \/ Exit

SpecShutdown == InitOne /\ [][NextShutdown]_vars

---------------------------------------------------------------------------
(* ChatService: streamChat, streamChannelChat, saveChatMessage, disconnect *)
(*                                                                         *)
(* streamChannelChat differs from streamChat in the prefix of the stream   *)
(* id and in that it always fetches a context; one set of actions models   *)
(* both, told apart by the field `kind`.  A message is modelled by its     *)
(* role, a delta by its content, the frames written to a sink by their     *)
(* number per type.  `failed`, `llm` and `broke` are history fields: a     *)
(* step before the completion stream failed, a completion was requested,   *)
(* the delta loop was left by its break.                                   *)

MessageLists  == {<<>>, <<"user">>, <<"assistant">>}
DeltaContents == {"", "a", "[1:05]"}

\* the stream ids: `${sessionId}-${Date.now()}`, with the prefix `channel-`
\* in streamChannelChat
StreamIds == {"video", "channel"} \X (Sessions \cup {"none"}) \X (1..MaxMs)

\* messages.filter(m => m.role === 'user').pop() is defined
HasUserMessage(messages) ==
    \E i \in 1..Len(messages) : messages[i] = "user"

\* extractCitations: the timestamps in the response
extractCitations(text) == {i \in 1..Len(text) : text[i] = "[1:05]"}

\* the citations that come with a context
ContextCitations(context) == context \in {"cached", "chunks"}

\* the done frame is written and the sink is ended
Finish(st) ==
    [st EXCEPT !.done = @ + 1,
               !.citations = IF \/ ContextCitations(st.context)
                                \/ extractCitations(st.fullResponse) # {}
                             THEN "some" ELSE "empty",
               !.ended = TRUE, !.pc = "closed"]

\* the catch block: the error frame is written and the sink is ended
Catch(st) == [st EXCEPT !.error = @ + 1, !.ended = TRUE, !.pc = "closed"]

\* the getVideoContext / getChannelContext call has returned
Context(st, context, failed) ==
    [st EXCEPT !.context = context, !.failed = @ \/ failed, !.pc = "create"]

\* streamChat / streamChannelChat up to the first await
StreamChat(s) ==
    /\ streams[s].pc = "idle"
    /\ \E kind \in {"video", "channel"}, messages \in MessageLists,
          videoId \in BOOLEAN, sessionId \in Sessions \cup {"none"},
          ms \in 1..MaxMs :
          LET id == <<kind, sessionId, ms>>
              st == [IdleStream EXCEPT !.kind = kind, !.messages = messages,
                        !.videoId = videoId, !.sessionId = sessionId,
                        !.id = id]
          IN  /\ kind = "channel" => videoId
              /\ activeStreams' = activeStreams \cup {id}
              /\ streams' = [streams EXCEPT ![s] =
                     IF kind = "video" /\ ~videoId
                     THEN Context(st, "empty", FALSE)
                     ELSE IF ~HasUserMessage(messages)
                     THEN Context(st, "empty", FALSE)
                     ELSE [st EXCEPT !.pc = "lookup"]]
    /\ UNCHANGED <<chat_messages, chat_sessions>>
    /\ UNCHANGED exceptChat

\* getVideoContext / getChannelContext: the row is looked up with .single()
GetContextLookup(s) ==
    /\ streams[s].pc = "lookup"
    /\ \E answer \in {"row", "none", "error"} :
          streams' = [streams EXCEPT ![s] =
              IF answer = "row" THEN [streams[s] EXCEPT !.pc = "cache"]
              ELSE Context(streams[s], "empty", answer = "error")]
    /\ UNCHANGED <<activeStreams, chat_messages, chat_sessions>>
    /\ UNCHANGED exceptChat

\* the cache probe: a hit, a miss, or a failure the cache service turns
\* into a miss
GetContextCache(s) ==
    /\ streams[s].pc = "cache"
    /\ \E answer \in {"hit", "miss", "error"} :
          streams' = [streams EXCEPT ![s] =
              IF answer = "hit" THEN Context(streams[s], "cached", FALSE)
              ELSE [streams[s] EXCEPT !.pc = "search",
                                      !.failed = @ \/ answer = "error"]]
    /\ UNCHANGED <<activeStreams, chat_messages, chat_sessions>>
    /\ UNCHANGED exceptChat

\* the retrieval: chunks, no chunks, or an exception caught by the context
\* function, which then returns the empty context
GetContextSearch(s) ==
    /\ streams[s].pc = "search"
    /\ \E answer \in {"chunks", "none", "error"} :
          streams' = [streams EXCEPT ![s] =
              IF answer = "chunks" THEN Context(streams[s], "chunks", FALSE)
              ELSE IF answer = "none" THEN Context(streams[s], "title", FALSE)
              ELSE Context(streams[s], "empty", TRUE)]
    /\ UNCHANGED <<activeStreams, chat_messages, chat_sessions>>
    /\ UNCHANGED exceptChat

\* openai.chat.completions.create answers with a stream
OpenCompletion(s) ==
    /\ streams[s].pc = "create"
    /\ \E n \in 0..MaxDeltas :
          streams' = [streams EXCEPT ![s].llm = TRUE, ![s].deltas = n,
                                     ![s].pc = "loop"]
    /\ UNCHANGED <<activeStreams, chat_messages, chat_sessions>>
    /\ UNCHANGED exceptChat

\* openai.chat.completions.create throws
OpenCompletionError(s) ==
    /\ streams[s].pc = "create"
    /\ streams' = [streams EXCEPT
                      ![s] = Catch([streams[s] EXCEPT !.llm = TRUE,
                                                      !.failed = TRUE])]
    /\ activeStreams' = activeStreams \ {streams[s].id}
    /\ UNCHANGED <<chat_messages, chat_sessions>>
    /\ UNCHANGED exceptChat

\* after the delta loop: extractCitations, then saveChatMessage if there is
\* a session; saveChatMessage reads userMessage.content first, which throws
\* into its own catch block when the messages list is empty
LoopExit(s, st) ==
    IF st.sessionId = "none" \/ st.messages = <<>>
    THEN /\ streams' = [streams EXCEPT ![s] = Finish(st)]
         /\ activeStreams' = activeStreams \ {st.id}
    ELSE /\ streams' = [streams EXCEPT ![s] = [st EXCEPT !.pc = "save_user"]]
         /\ UNCHANGED activeStreams

\* one pass of the delta loop, without its test of activeStreams
DeltaUnchecked(s) ==
    /\ streams[s].pc = "loop"
    /\ streams[s].deltas > 0
    /\ \E content \in DeltaContents :
          streams' = [streams EXCEPT
              ![s].deltas = @ - 1,
              ![s].fullResponse = IF content # "" THEN Append(@, content)
                                  ELSE @,
              ![s].content = IF content # "" THEN @ + 1 ELSE @]
    /\ UNCHANGED <<activeStreams, chat_messages, chat_sessions>>
    /\ UNCHANGED exceptChat

\* one pass of the delta loop: the stream delivers a chunk; the loop is
\* left if the stream id is not active, else a delta that is not empty is
\* written as a content frame
Delta(s) ==
    /\ streams[s].pc = "loop"
    /\ streams[s].deltas > 0
    /\ IF streams[s].id \notin activeStreams
       THEN LoopExit(s, [streams[s] EXCEPT !.broke = TRUE])
       ELSE /\ \E content \in DeltaContents :
                  streams' = [streams EXCEPT
                      ![s].deltas = @ - 1,
                      ![s].fullResponse = IF content # ""
                                          THEN Append(@, content) ELSE @,
                      ![s].content = IF content # "" THEN @ + 1 ELSE @]
            /\ UNCHANGED activeStreams
    /\ UNCHANGED <<chat_messages, chat_sessions>>
    /\ UNCHANGED exceptChat

\* the completion stream is exhausted
StreamEnds(s) ==
    /\ streams[s].pc = "loop"
    /\ streams[s].deltas = 0
    /\ LoopExit(s, streams[s])
    /\ UNCHANGED <<chat_messages, chat_sessions>>
    /\ UNCHANGED exceptChat

\* the completion stream throws
StreamThrows(s) ==
    /\ streams[s].pc = "loop"
    /\ streams' = [streams EXCEPT ![s] = Catch(streams[s])]
    /\ activeStreams' = activeStreams \ {streams[s].id}
    /\ UNCHANGED <<chat_messages, chat_sessions>>
    /\ UNCHANGED exceptChat

\* saveChatMessage: the last message of the list is inserted with role
\* 'user'; the answer of the store is not read
SaveUser(s) ==
    /\ streams[s].pc = "save_user"
    /\ \E ok \in BOOLEAN :
          chat_messages' = IF ok
              THEN chat_messages \cup {[session_id |-> streams[s].sessionId,
                                        role |-> "user", by |-> s]}
              ELSE chat_messages
    /\ streams' = [streams EXCEPT ![s].pc = "save_assistant"]
    /\ UNCHANGED <<activeStreams, chat_sessions>>
    /\ UNCHANGED exceptChat

\* saveChatMessage: the response is inserted with role 'assistant'
SaveAssistant(s) ==
    /\ streams[s].pc = "save_assistant"
    /\ \E ok \in BOOLEAN :
          chat_messages' = IF ok
              THEN chat_messages \cup {[session_id |-> streams[s].sessionId,
                                        role |-> "assistant", by |-> s]}
              ELSE chat_messages
    /\ streams' = [streams EXCEPT ![s].pc = "save_session"]
    /\ UNCHANGED <<activeStreams, chat_sessions>>
    /\ UNCHANGED exceptChat

\* saveChatMessage: message_count = message_count + 2; then the done frame
UpdateSession(s) ==
    /\ streams[s].pc = "save_session"
    /\ chat_sessions' = [chat_sessions EXCEPT ![streams[s].sessionId] = @ + 2]
    /\ streams' = [streams EXCEPT ![s] = Finish(streams[s])]
    /\ activeStreams' = activeStreams \ {streams[s].id}
    /\ UNCHANGED chat_messages
    /\ UNCHANGED exceptChat

\* building or sending the update throws (supabase.sql is not part of the
\* client this repository creates) or the store refuses it; then the done
\* frame
UpdateSessionThrow(s) ==
    /\ streams[s].pc = "save_session"
    /\ streams' = [streams EXCEPT ![s] = Finish(streams[s])]
    /\ activeStreams' = activeStreams \ {streams[s].id}
    /\ UNCHANGED <<chat_messages, chat_sessions>>
    /\ UNCHANGED exceptChat

\* disconnect(streamId)
Disconnect(id) ==
    /\ id \in activeStreams
    /\ activeStreams' = activeStreams \ {id}
    /\ UNCHANGED <<streams, chat_messages, chat_sessions>>
    /\ UNCHANGED exceptChat

NextChat ==
    \/ \E s \in Sinks :
          \/ StreamChat(s)
          \/ GetContextLookup(s)
          \/ GetContextCache(s)
          \/ GetContextSearch(s)
          \/ OpenCompletion(s)
          \/ OpenCompletionError(s)
          \/ Delta(s)
          \/ StreamEnds(s)
          \/ StreamThrows(s)
          \/ SaveUser(s)
          \/ SaveAssistant(s)
          \/ UpdateSession(s)
          \/ UpdateSessionThrow(s)
    \/ \E id \in StreamIds : Disconnect(id)

SpecChat == InitNone /\ [][NextChat]_vars

---------------------------------------------------------------------------
(* ChannelProcessor.processChannel: the loop over the videos               *)
(*                                                                         *)
(* A listed video is one of four kinds: its row has transcript_cached      *)
(* (cached); processVideo succeeds on it (fresh); it has no captions       *)
(* (captionless); its embeddings cannot be made (unembeddable).  An error  *)
(* message is modelled by its words.  `fate` is a history field: what      *)
(* happened to each video.                                                 *)

SliceLimit == 20    \* processChannel handles the first 20 videos

VideoKinds == {"cached", "fresh", "captionless", "unembeddable"}

\* downloadTranscript: the error for a video without captions
CaptionsError == <<"Unable", "to", "analyze", "this", "video", "The",
                   "video", "may", "not", "have", "captions", "enabled",
                   "or", "may", "be", "private">>

\* the error of a failed embeddings request
EmbeddingError == <<"Request", "failed", "with", "status", "code", "500">>

\* String.prototype.includes, for a word
Includes(message, word) == \E k \in 1..Len(message) : message[k] = word

Min(a, b) == IF a < b THEN a ELSE b

\* videos.slice(0, 20)
VideosToProcess(list) == SubSeq(list, 1, Min(Len(list), SliceLimit))

\* a listing longer than the slice
LongList == [k \in 1..(SliceLimit + 1) |-> "cached"]

VideoLists == UNION {[1..m -> VideoKinds] : m \in 1..MaxVideos}
                  \cup {LongList}

\* a loop that ends with the first video that failed
StopAtFailure(g) ==
    [g EXCEPT !.i = @ + 1,
              !.pc = IF /\ g.i < Len(VideosToProcess(g.videos))
                        /\ g.fate[Len(g.fate)] \in {"existing", "processed"}
                     THEN "existing" ELSE "complete"]

\* the next pass of the loop, or the end of the loop
NextVideoOf(g) ==
    [g EXCEPT !.i = @ + 1,
              !.pc = IF g.i < Len(VideosToProcess(g.videos))
                     THEN "existing" ELSE "complete"]

\* the queue item is marked processing and fetchChannelVideos has answered;
\* the counters are zero
FetchChannelVideos ==
    /\ ingest.pc = "idle"
    /\ \E list \in VideoLists :
          ingest' = [IdleIngest EXCEPT !.videos = list, !.i = 1,
                                       !.pc = "existing",
                                       !.status = "processing"]
    /\ UNCHANGED exceptIngest

\* fetchChannelVideos throws: the catch block of processChannel runs
\* markChannelFailed
FetchChannelVideosError ==
    /\ ingest.pc = "idle"
    /\ ingest' = [IdleIngest EXCEPT !.pc = "failed", !.status = "failed"]
    /\ UNCHANGED exceptIngest

\* the progress update and the lookup of the video row: a video whose
\* transcript is cached counts as processed and as existing
CheckExisting ==
    /\ ingest.pc = "existing"
    /\ LET video == VideosToProcess(ingest.videos)[ingest.i]
       IN  ingest' =
               IF video = "cached"
               THEN NextVideoOf([ingest EXCEPT
                        !.processedCount = @ + 1,
                        !.existingCount = @ + 1,
                        !.fate = Append(@, "existing")])
               ELSE [ingest EXCEPT !.pc = "upsert"]
    /\ UNCHANGED exceptIngest

\* the upsert of the video row
UpsertVideo ==
    /\ ingest.pc = "upsert"
    /\ ingest' = [ingest EXCEPT !.pc = "process"]
    /\ UNCHANGED exceptIngest

\* the upsert fails
UpsertVideoError ==
    /\ ingest.pc = "upsert"
    /\ ingest' = NextVideoOf([ingest EXCEPT !.failedCount = @ + 1,
                                            !.fate = Append(@, "other")])
    /\ UNCHANGED exceptIngest

\* processVideoTranscript returns true, or stores the error message in the
\* video row and returns false
ProcessVideoTranscript ==
    /\ ingest.pc = "process"
    /\ LET video == VideosToProcess(ingest.videos)[ingest.i]
       IN  ingest' =
               IF video = "fresh"
               THEN NextVideoOf([ingest EXCEPT
                        !.processedCount = @ + 1,
                        !.fate = Append(@, "processed")])
               ELSE [ingest EXCEPT
                        !.failedCount = @ + 1,
                        !.processing_error =
                            IF video = "captionless" THEN CaptionsError
                            ELSE EmbeddingError,
                        !.fate = Append(@, IF video = "captionless"
                                           THEN "no_captions" ELSE "other"),
                        !.pc = "reread"]
    /\ UNCHANGED exceptIngest

\* an await of the pass rejects: the catch block of the loop
VideoThrows ==
    /\ ingest.pc = "process"
    /\ ingest' = NextVideoOf([ingest EXCEPT !.failedCount = @ + 1,
                                            !.fate = Append(@, "other")])
    /\ UNCHANGED exceptIngest

\* the video row is read again: an error that mentions the transcript or
\* captions counts as no transcript
ReadProcessingError ==
    /\ ingest.pc = "reread"
    /\ ingest' = NextVideoOf([ingest EXCEPT
           !.noTranscriptCount =
               IF \/ Includes(ingest.processing_error, "transcript")
                  \/ Includes(ingest.processing_error, "captions")
               THEN @ + 1 ELSE @,
           !.processing_error = <<>>])
    /\ UNCHANGED exceptIngest

\* the queue item and the channel are marked, and sendCompletionEmail gets
\* the counters; the mail is sent if the requesting user has an address
SendCompletionEmail ==
    /\ ingest.pc = "complete"
    /\ \E email \in BOOLEAN :
          ingest' = [ingest EXCEPT
              !.pc = "done",
              !.status = "completed",
              !.mailed = email,
              !.stats = [processed |-> ingest.processedCount,
                         total |-> Len(VideosToProcess(ingest.videos)),
                         existing |-> ingest.existingCount,
                         no_transcript |-> ingest.noTranscriptCount,
                         failed |-> ingest.failedCount]]
    /\ UNCHANGED exceptIngest

NextIngest ==
    \/ FetchChannelVideos
    \/ FetchChannelVideosError
    \/ CheckExisting
    \/ UpsertVideo
    \/ UpsertVideoError
    \/ ProcessVideoTranscript
    \/ VideoThrows
    \/ ReadProcessingError
    \/ SendCompletionEmail

SpecIngest == InitNone /\ [][NextIngest]_vars

---------------------------------------------------------------------------
(* The life of a channel: enqueueChannel, the dispatcher tick and          *)
(* processChannel on the queue items of the channels, on one instance.     *)
(* The clock stands still.  The retry tick, which only turns failed rows   *)
(* into pending ones, is run with the dispatcher in SpecRetry.             *)

EnqueueSteps(e) ==
    \/ \E c \in ChannelIds : EnqueueChannel(e, c)
    \/ EnqueueCheck(e)
    \/ EnqueueLookup(e)
    \/ EnqueueInsert(e)
    \/ EnqueueInsertError(e)

NextLifecycle ==
    \/ EnqueueSteps("e1")
    \/ TickProcessPending("a1")
    \/ \/ AcqInsert("a1") \/ AcqInsertError("a1") \/ AcqRecord("a1")
       \/ ProcessChannel("a1")
       \/ Release("a1")

SpecLifecycle == InitOne /\ [][NextLifecycle]_vars

---------------------------------------------------------------------------
(* Claims *)

Live(l) == ~(l.expires_at < now)

\* a caller holds the lease it got from acquire until a release is made for
\* it: by the caller's finally block or by the timer armed for the lease
HeldLeases(r) ==
    {l \in granted : l.resource_id = r /\ Live(l) /\ l.lock_id \notin released}

\* C1: for every resource, at most one lease handed out by acquire is held
\* at a time, that is, has not passed its expires_at and has not been
\* released for its holder.
LockMutualExclusion ==
    \A r \in Resources : Cardinality(HeldLeases(r)) <= 1

RemovedLocks == processing_locks \ processing_locks'

FencingStep ==
    /\ \A k \in Tasks :
          (task[k].pc = "rel_delete" /\ task'[k].pc = "rel_cleanup")
              => \A row \in RemovedLocks : ~(row.lock_id > task[k].lockId)
    /\ \A a \in autoRel :
          (a.pc = "delete" /\ a \notin autoRel')
              => \A row \in RemovedLocks : ~(row.lock_id > a.armedBy)

\* C2: a release made for a lease (by the finally block of the task that
\* acquired it, or by the timer its acquire armed) never deletes the row of
\* a newer lease.
ReleaseFencing == [][FencingStep]_vars

BodyPcs == {"load", "mark_processing", "chan_processing", "work",
            "mark_completed", "chan_ready", "mark_failed"}

ExecutingOn(q) ==
    {k \in Tasks : /\ task[k].kind = "channel-queue"
                   /\ task[k].job = q
                   /\ task[k].pc \in BodyPcs}

\* C3: no two executions of processChannel on the same queue item are in
\* their try block (after acquire, before release) at the same time.
AtMostOneExecution ==
    \A q \in QIds : Cardinality(ExecutingOn(q)) <= 1

\* C4: processChannel sets a queue item to processing only when the item
\* is pending at that moment.
OnlyPendingToProcessing ==
    [][\A k \in Tasks :
          (task[k].pc = "mark_processing" /\ task'[k].pc = "chan_processing")
              => channel_queue[task[k].job].status = "pending"]_vars

PendingRows(c) ==
    {q \in DOMAIN channel_queue :
        /\ channel_queue[q].channel_id = c
        /\ channel_queue[q].status = "pending"}

\* C5: when a caller's two latest enqueueChannel calls were for the same
\* channel, the first of them returned a queue item, and nothing else wrote
\* the queue from the return of the first to now, then the second returned
\* success = false with the existing row and the channel has exactly one
\* pending row.
IdempotentEnqueue ==
    \A e \in Callers :
        (/\ enq[e].pc = "idle"
         /\ enq[e].prev.res \in {"created", "existing"}
         /\ enq[e].last.ch = enq[e].prev.ch
         /\ enq[e].last.res # "error"
         /\ enq[e].pairQuiet
         /\ channel_queue = enq[e].snap)
        => /\ enq[e].last.res = "existing"
           /\ Cardinality(PendingRows(enq[e].last.ch)) = 1

Quiescent == \A k \in Tasks : task[k].pc = "idle"

\* C7: when no processVideo run is under way, the chunks stored for a video
\* have pairwise distinct chunk_index values, which are 0..N-1.
ChunkIndexInvariant ==
    Quiescent =>
        \A y \in DOMAIN videos :
            LET rows == ChunksOf(videos[y].id)
            IN  /\ \A c, d \in rows : c.chunk_index = d.chunk_index => c = d
                /\ {c.chunk_index : c \in rows} = 0..(Cardinality(rows) - 1)

\* C8: what a reader of a video's chunks got is the chunk set stored by one
\* run of processVideo, whole, or nothing when no run had stored any.
ReaderSeesOneSet ==
    /\ \A c, d \in reader : c.run = d.run
    /\ \A c \in reader :
          \A d \in transcript_chunks :
              (d.video_id = c.video_id /\ d.run = c.run) => d \in reader

ChunksImplyProcessed ==
    \A y \in DOMAIN videos :
        ChunksOf(videos[y].id) # {} => videos[y].chunks_processed

\* C11: the chunks createChunks makes of a transcript lie end to end in the
\* transcript file: the first starts at byte 0, each next one starts where
\* the one before ends, and the last ends at the size of the file.
ByteAccounting ==
    chunking.step = "chunked" =>
        LET c == chunking.chunks
        IN  /\ Len(c) > 0
            /\ c[1].byte_offset = 0
            /\ \A k \in 1..(Len(c) - 1) :
                  c[k + 1].byte_offset = c[k].byte_offset + c[k].byte_length
            /\ c[Len(c)].byte_offset + c[Len(c)].byte_length = chunking.blob

\* C11 witness: a transcript cut into several chunks, one of them of more
\* than one segment and one with a character of several bytes.
SeveralChunksWitness ==
    /\ chunking.step = "chunked"
    /\ Len(chunking.chunks) >= 2
    /\ \E k \in 1..Len(chunking.chunks) :
          ByteLength(chunking.chunks[k].text)
              # StringLength(chunking.chunks[k].text)
    /\ Len(chunking.chunks) < Len(chunking.transcript)

\* C12: on POST /chat/stream, behind authMiddleware and
\* rateLimitMiddleware('chat'), a caller of class user has at most 5 requests
\* within one hour handed to the route handler, and every request handed on
\* has a row in rate_limits; a sixth request is not handed on.
ChatCapEnforced ==
    \A u \in UserIds :
        /\ handled[u] <= RATE_LIMITS["user"]["chat"].hourly
        /\ handled[u] <= Cardinality(UsageRows(<<"user", u>>, "chat",
                                               WindowStart(clock, "hour")))

\* C13: for one caller making one call after the other, every window result
\* of a returned checkLimit that was not a fail-open answer has remaining =
\* max(0, L - n), n being the events of the key recorded within the window
\* that ends at the call's `now`: one less after each recorded event, never
\* negative, and L again once every recorded event is older than the window.
RemainingFollowsUsage ==
    LET c == limiter["p1"]
    IN  (c.pc = "idle" /\ c.op = "check") =>
            \A k \in 1..Len(c.results) :
                LET r == c.results[k]
                    n == Cardinality(UsageRows(c.identifier, c.action,
                                         WindowStart(c.at, r.window)))
                IN  ~r.failOpen =>
                        r.remaining = IF r.limit - n > 0 THEN r.limit - n
                                      ELSE 0

\* C14: every window result of a returned checkLimit that was not a
\* fail-open answer was computed from a count that includes every event of
\* the key, within the window, whose recordUsage had returned when the
\* checkLimit started.
MemoNeverStale ==
    \A p \in Clients :
        LET c == limiter[p]
        IN  (c.pc = "idle" /\ c.op = "check") =>
                \A k \in 1..Len(c.results) :
                    LET r == c.results[k]
                    IN  ~r.failOpen =>
                            r.count >= Cardinality(c.must \cap
                                UsageRows(c.identifier, c.action,
                                          WindowStart(c.at, r.window)))

\* C15: a content frame is written for a stream only in a step that finds
\* the stream's id in activeStreams: once disconnect has removed the entry,
\* no content frame follows, however many deltas the completion still has.
ContentOnlyWhileActive ==
    [][\A s \in Sinks :
          streams'[s].content > streams[s].content =>
              streams[s].id \in activeStreams]_vars

\* a stream that had written a content frame left the loop by its break
\* while the completion still had deltas to deliver
CancelledWitness ==
    \E s \in Sinks :
        /\ streams[s].broke
        /\ streams[s].deltas > 0
        /\ streams[s].content > 0

\* C16: a stream that left the delta loop by its break (its entry was
\* removed before the completion finished) inserts no row into chat_messages
\* and leaves the session's message_count as it was.
NoPersistenceAfterDisconnect ==
    \A s \in Sinks :
        streams[s].broke =>
            /\ {m \in chat_messages : m.by = s} = {}
            /\ \A x \in Sessions : chat_sessions[x] = 0

\* C17: when a step before the completion stream has failed (the lookup,
\* the cache probe, the retrieval, or opening the completion), no content
\* and no done frame is written, and the sink is ended after exactly one
\* error frame.
ErrorFrameOnEarlyFailure ==
    \A s \in Sinks :
        streams[s].failed =>
            /\ streams[s].content = 0
            /\ streams[s].done = 0
            /\ streams[s].ended => streams[s].error = 1

\* C18: a request whose messages contain no message of role user starts no
\* completion, writes no content and no error frame, persists nothing, and
\* ends the sink after a single done frame with no citations.
NoUserMessageOnlyDone ==
    \A s \in Sinks :
        (streams[s].pc # "idle" /\ ~HasUserMessage(streams[s].messages)) =>
            /\ ~streams[s].llm
            /\ streams[s].content = 0
            /\ streams[s].error = 0
            /\ {m \in chat_messages : m.by = s} = {}
            /\ streams[s].ended =>
                   streams[s].done = 1 /\ streams[s].citations = "empty"

\* the number of videos of a run with a given fate
Fated(f) == Cardinality({k \in 1..Len(ingest.fate) : ingest.fate[k] = f})

\* C19: the statistics processChannel hands to the completion mail:
\* processed is the number of videos already cached plus the number newly
\* processed, existing the number already cached, no_transcript the number
\* that failed for want of captions, failed the number that failed for
\* another reason, total the number of videos handled.
IngestStatistics ==
    ingest.pc = "done" =>
        /\ ingest.stats.processed = Fated("existing") + Fated("processed")
        /\ ingest.stats.existing = Fated("existing")
        /\ ingest.stats.no_transcript = Fated("no_captions")
        /\ ingest.stats.failed = Fated("other")
        /\ ingest.stats.total = Len(ingest.fate)

\* C20: a channel whose status is ready keeps that status: no enqueue,
\* dispatcher tick, retry tick or processChannel step sets it back to
\* processing or pending.
ReadyIsFinal ==
    [][\A c \in ChannelIds :
          channels[c] = "ready" => channels'[c] = "ready"]_vars

\* what can become of a listed video of a kind
FateOf(kind) ==
    IF kind = "cached" THEN {"existing"}
    ELSE IF kind = "fresh" THEN {"processed", "other"}
    ELSE IF kind = "captionless" THEN {"no_captions", "other"}
    ELSE {"other"}

ReleaseReturns(k) ==
    /\ task[k].pc \in {"release", "rel_cleanup"}
    /\ task'[k].pc \notin {"release", "rel_delete", "rel_cleanup"}

AvailabilityStep ==
    \A k \in Tasks :
        (ReleaseReturns(k) /\ task[k].lockId # NoLock)
            => \A row \in processing_locks' :
                   row.lock_id = task[k].lockId => Expired(row)

\* C22: of two acquire calls on a free resource one gets the lease and the
\* other null, and when the holder's release has returned, its row no longer
\* stands in the way of the next acquire (the resource has no live row of
\* that lease).
AvailableAfterRelease == [][AvailabilityStep]_vars

\* C23: acquire fails closed: a call of acquire during which the store
\* reported an error while the row in its way was inspected or deleted
\* hands out no lease, records none in the local map and arms no timer.
AcquireFailsClosed ==
    \A k \in Tasks :
        task[k].erred =>
            /\ task[k].lockId = NoLock
            /\ task[k].pc \in {"acq_insert", "acq_check", "acq_clean"}

\* C24: the rate limiter fails open: a window whose count request failed is
\* reported as allowed with the whole limit remaining, and a request during
\* which the middleware itself threw is handed to the handler.
RateLimiterFailsOpen ==
    /\ \A p \in Clients \cup Conns :
          \A i \in 1..Len(limiter[p].results) :
              LET r == limiter[p].results[i]
                  c == limiter[p]
              IN  r.failOpen =>
                      /\ r.allowed
                      /\ r.remaining \in
                             {LimitOf(RATE_LIMITS[c.userType][c.action], w) :
                                  w \in Windows}
    /\ \A q \in Conns :
          requests[q].threw =>
              \/ requests[q].pc = "handler"
              \/ requests[q].pc = "idle" /\ requests[q].status = 200

\* a checkLimit came back allowed with a failed count although the window's
\* usage had reached the limit, and the middleware threw after it
FailOpenWitness ==
    \E q \in Conns :
        LET c == limiter[q]
        IN  /\ requests[q].threw
            /\ requests[q].pc = "handler"
            /\ c.op = "check"
            /\ c.result.failOpen
            /\ c.result.allowed
            /\ Cardinality(UsageRows(c.identifier, c.action,
                                     WindowStart(c.at, "day")))
                   >= LimitOf(RATE_LIMITS[c.userType][c.action], "day")

\* the pending rows of the queue created before a row
EarlierPending(rows, id) ==
    {j \in PendingIds(rows) : rows[j].created_at < rows[id].created_at}

\* C25: for a pending queue item getChannelQueuePosition returns 1 plus the
\* number of pending rows with an earlier created_at; for an item that is
\* not pending or not in the queue it returns null.
QueuePosition ==
    (position.pc = "done" /\ position.answered) =>
        IF position.queueItemId \in PendingIds(position.rows)
        THEN position.result =
                 1 + Cardinality(EarlierPending(position.rows,
                                                position.queueItemId))
        ELSE position.result = Null

\* C26: a get issued right after a set (and before the entry's expires_at)
\* returns the value that was set, and a get issued at or after the
\* expires_at of the entry that was set returns null, whether the upsert of
\* that set succeeded or not.
CacheGetSetLaw ==
    LET c == cacheService
    IN  (c.answered /\ c.last.held) =>
            /\ (c.afterSet /\ c.issuedAt < c.last.expiresAt)
                   => c.result = c.last.data
            /\ c.issuedAt >= c.last.expiresAt => c.result = "null"

\* the shape of a channel search result but for its order
ChannelResultShape ==
    LET r == search.result
    IN  /\ Len(r) <= search.k
        /\ \A i, j \in 1..Len(r) : i # j => r[i].id # r[j].id
        /\ \A i \in 1..Len(r) :
               /\ r[i].id \in 1..Len(search.table)
               /\ r[i].video_id = search.table[r[i].id].video_id
               /\ ChannelOf(r[i].video_id) = "c1"

Candidates ==
    LET InChannel(c) == ChannelOf(c.video_id) = "c1"
        chunks == SelectSeq(Loaded(search.table), InChannel)
    IN  IF search.fn = "searchChannelChunks"
        THEN MatchChunks(chunks, ChannelThreshold, search.k * 2)
        ELSE chunks

\* the number of chunks of a video in a list
ChunksOfVideo(seq, v) == Cardinality({i \in 1..Len(seq) : seq[i].video_id = v})

\* C28: in the result of a channel search with limit k over candidates of d
\* videos no video has more than ceil(k / min(d, 3)) chunks; for k = 9 and
\* three videos with 7, 3 and 3 candidates the result has 3 chunks of each.
DiversifiedResult ==
    (search.pc = "done"
        /\ search.fn \in {"hybridChannelSearch", "searchChannelChunks"}) =>
        LET d == Len(VideoOrder(Candidates))
            cap == Ceil(search.k, IF d < DiversifyVideos THEN d
                                  ELSE DiversifyVideos)
        IN  /\ d > 0 =>
                   \A v \in SearchVideos : ChunksOfVideo(search.result, v) <= cap
            /\ (search.table = DiversifyExample /\ search.k = 9) =>
                   \A v \in {"w1", "w2", "w3"} :
                       ChunksOfVideo(search.result, v) = 3

\* the ids of the semantic top set of a video search
SemanticTop ==
    LET IsOfVideo(c) == c.video_id = "w1"
        top == Limit(SortBySimilarity(SelectSeq(Loaded(search.table),
                                                IsOfVideo)), search.k)
    IN  {top[i].id : i \in 1..Len(top)}

\* the final score the claim gives a chunk
MergedScore(c) ==
    (IF c.id \in SemanticTop
     THEN c.similarity + (IF c.keywords THEN HybridBoost ELSE 0)
     ELSE KeywordBase) + c.hits * PreviewBoost

\* C29: in video search a chunk's final score is its similarity, plus 0.3 if
\* it matches a query keyword and is in the semantic top set, plus 0.1 per
\* query keyword in its preview, with base 0.5 for a keyword match outside
\* the top set; so B (0.60, two keyword hits) scores 1.10 and comes before
\* A (0.80, no hit) with 0.80.
HybridScoreMerge ==
    (search.pc = "done"
        /\ search.fn \in {"hybridChunkSearch", "searchVideoChunks"}) =>
        /\ \A i \in 1..Len(search.result) :
               search.result[i].score = MergedScore(search.result[i])
        /\ search.table = BoostExample =>
               /\ Len(search.result) = 2
               /\ search.result[1].id = 2 /\ search.result[1].score = 110
               /\ search.result[2].id = 1 /\ search.result[2].score = 80

\* the contexts in the error buffer (a flush in flight included) and in
\* error_logs
InFlight ==
    LET cat[i \in 0..Len(errorTracker.flights)] ==
            IF i = 0 THEN <<>>
            ELSE cat[i - 1] \o errorTracker.flights[i].errors
    IN  cat[Len(errorTracker.flights)]

StoredContexts ==
    LET all == errorTracker.errorBuffer \o InFlight \o errorTracker.error_logs
    IN  {all[i].context : i \in 1..Len(all)}

\* C30: in every error event in the error buffer or in error_logs, each
\* entry of the context under one of the keys password, token, apiKey,
\* secret, authorization has the value [REDACTED].
Redaction ==
    \A context \in StoredContexts :
        /\ \A key \in DOMAIN context.body.entries :
               key \in sensitiveKeys =>
                   context.body.entries[key] = "[REDACTED]"
        /\ \A key \in DOMAIN context.query :
               key \in sensitiveKeys => context.query[key] = "[REDACTED]"

\* the number of places of a sequence of events that hold the event of
\* track call n
Occurrences(seq, n) == Cardinality({i \in 1..Len(seq) : seq[i].n = n})

\* every tracked event is once in the buffer, in a flush in flight or in
\* error_logs
ExactlyOnce ==
    \A n \in 1..errorTracker.tracked :
        Occurrences(errorTracker.errorBuffer \o InFlight
                        \o errorTracker.error_logs, n) = 1

\* an event that failed to flush stands in the buffer before the events
\* tracked during that flush
FailedAhead ==
    \A i, j \in 1..Len(errorTracker.errorBuffer) :
        i < j => <<errorTracker.errorBuffer[j].n,
                   errorTracker.errorBuffer[i].n>> \notin errorTracker.ahead

\* C40: after any interleaving of track calls, size-triggered and timer
\* flushes and failed inserts, every tracked event is exactly once in the
\* error buffer or exactly once in error_logs (or held by a flush that still
\* awaits its insert), and the events that failed to flush stand in the
\* buffer ahead of the events tracked during their flush.
ErrorEventsKept == ExactlyOnce /\ FailedAhead

\* the leases this instance held when the signal came are gone from the store
LocksReleased ==
    \A row \in processing_locks : row.lock_id \notin shutdown.held

\* no error event is left in the buffer or in a flush that awaits its insert
ErrorsFlushed ==
    /\ errorTracker.errorBuffer = <<>>
    /\ errorTracker.flights = <<>>

\* no setInterval timer is left running
TickersStopped == shutdown.intervals = {}

\* C31: when the process has exited after a signal, every lock this instance
\* held is released in the store, every buffered error event is in
\* error_logs, and the background timers are stopped.
GracefulShutdown ==
    shutdown.pc = "exited" =>
        LocksReleased /\ ErrorsFlushed /\ TickersStopped

\* the catch block of processVideo on task k has run in this step
CatchDone(k) ==
    /\ task[k].kind = "video"
    /\ task[k].pc = "v_catch"
    /\ task'[k].pc = "release"

\* the row of the video says that the run failed, and why
FailureInRow(k) ==
    task[k].job \in DOMAIN videos =>
        /\ ~videos'[task[k].job].transcript_cached
        /\ videos'[task[k].job].processing_error = task[k].error

\* C32: when a run of processVideo that acquired the lock fails at one of
\* its steps, its catch block leaves the video row with
\* transcript_cached = false and processing_error set to the message of the
\* failure, and the run returns false.
FailureRecording ==
    [][\A k \in Tasks :
           CatchDone(k) => task'[k].result = "false" /\ FailureInRow(k)]_vars

\* the cut policy as the claim states it: for each segment, the length of
\* the buffer right after the segment is appended and whether the chunk is
\* closed there
Policy(transcript) ==
    LET P[i \in 0..Len(transcript)] ==
            IF i = 0 THEN [length |-> 0, cut |-> TRUE]
            ELSE LET text   == transcript[i].text
                     length == (IF P[i - 1].cut THEN 0 ELSE P[i - 1].length)
                                   + StringLength(Line(transcript[i]))
                     natural == /\ Len(text) > 0
                                /\ text[Len(text)] \in {".", "!", "?"}
                 IN  [length |-> length,
                      cut |-> \/ natural /\ length >= ChunkSize
                              \/ length >= MaxChunkLength
                              \/ i = Len(transcript)]
    IN  P

\* the segments after which the policy cuts, in order
Cuts(transcript) ==
    LET P == Policy(transcript)
        F[i \in 0..Len(transcript)] ==
            IF i = 0 THEN <<>>
            ELSE IF P[i].cut THEN Append(F[i - 1], i) ELSE F[i - 1]
    IN  F[Len(transcript)]

\* the lines of the segments from..to, one after the other
Lines(transcript, from, to) ==
    LET F[i \in (from - 1)..to] ==
            IF i = from - 1 THEN <<>> ELSE F[i - 1] \o Line(transcript[i])
    IN  F[to]

\* C33: createChunks closes a chunk after a segment exactly when the segment
\* ends a sentence and the buffer has reached the chunk size, or the buffer
\* has reached the maximal length, or the segment is the last one; so chunk
\* j holds the lines of the segments after the cut before it up to its own
\* cut: every segment lies in exactly one chunk and no chunk is empty.
ChunkerCutPolicy ==
    chunking.step = "chunked" =>
        LET cuts == Cuts(chunking.transcript)
        IN  /\ Len(chunking.chunks) = Len(cuts)
            /\ \A j \in 1..Len(cuts) :
                  /\ chunking.chunks[j].text =
                         Lines(chunking.transcript,
                               IF j = 1 THEN 1 ELSE cuts[j - 1] + 1, cuts[j])
                  /\ chunking.chunks[j].text # <<>>

\* C33 witness: a chunk of two segments is closed at the end of a sentence,
\* before the last segment and below the maximal length.
CutPolicyWitness ==
    /\ chunking.step = "chunked"
    /\ LET P == Policy(chunking.transcript)
       IN  /\ ~P[1].cut
           /\ P[2].cut
           /\ P[2].length < MaxChunkLength
           /\ Len(chunking.transcript) > 2

\* the entry generateEmbeddings owes for an input chunk
Owed(chunk) ==
    [chunk_index |-> chunk.chunk_index,
     embedding |-> IF chunk.chunk_index \in embedding.failed
                   THEN "null" ELSE Vector(chunk)]

\* C34: generateEmbeddings returns one entry per input chunk, in input
\* order; the entry of a chunk whose provider call failed has embedding
\* null, every other chunk, of the same and of later batches, has its
\* vector; and storeChunks stores the entries as they are, null included.
EmbeddingFailuresIsolated ==
    /\ embedding.pc \in {"done", "stored", "failed"} =>
          embedding.chunksWithEmbeddings =
              [j \in 1..Len(embedding.chunks) |-> Owed(embedding.chunks[j])]
    /\ embedding.pc = "stored" =>
          embedding.stored = embedding.chunksWithEmbeddings

\* C34 witness: the first call of the first batch failed, the other call of
\* that batch and the calls of the second batch did not, and the chunks are
\* stored.
IsolatedFailureWitness ==
    /\ embedding.pc = "stored"
    /\ Len(embedding.chunks) > BatchSize + 1
    /\ embedding.failed = {0}
    /\ embedding.stored[1].embedding = "null"

Queued(y) ==
    \E j \in EligibleVideos : videoQueue.rows[j].youtube_id = y

\* C36: every video that is queued and not cached is eventually handed to
\* processVideo by the 30 s tick, whatever becomes of the videos queued
\* before it.
VideoTickFairness ==
    \A y \in QueuedVideos : Queued(y) ~> (y \in videoQueue.dispatched)

\* C37: a run of the new-video check goes through every channel that the
\* channel pipeline has brought to status ready (there are fewer than its
\* limit of 10).
ReadyChannelsChecked ==
    newVideos.runs > 0 => newVideos.ready \subseteq newVideos.considered

---------------------------------------------------------------------------
(* Two connections send requests to a route's rateLimitMiddleware within   *)
(* one unit of time.  The store answers every request, and no statement of *)
(* the middleware throws.                                                  *)

NextBurst ==
    \E q \in Conns :
        \/ Request(q)
        \/ rateLimitMiddleware(q)
        \/ CheckWindowProbe(q)
        \/ StoreCount(q)
        \/ CacheSet(q)
        \/ RateLimitDecide(q)
        \/ RecordInsert(q)
        \/ RecordInvalidate(q)
        \/ RateLimitNext(q)
        \/ Handler(q)

SpecBurst == InitNone /\ [][NextBurst]_vars

\* the class of an identifier, as the middleware derives it for the users
\* of the model (none of them premium)
UserTypeOf(identifier) ==
    IF identifier[1] = "user" THEN "user" ELSE "anonymous"

\* C38: for every identifier, action and window with a cap, the number of
\* requests the middleware let through and recorded within the window that
\* ends now is at most the cap, whatever the interleaving of the requests
RateCap ==
    \A identifier \in Identifiers, action \in Actions, window \in Windows :
        LET limit == LimitOf(RATE_LIMITS[UserTypeOf(identifier)][action],
                             window)
        IN  limit # NullLimit =>
                Cardinality(UsageRows(identifier, action,
                                      WindowStart(clock, window))) <= limit

---------------------------------------------------------------------------
(* processChannel from acquire to the release of its finally block, one    *)
(* execution at a time on one instance: the tick works through the pending *)
(* rows, and the route triggers a row by its id.  The clock stands still,  *)
(* so no auto-release timer fires.  The store may answer an update or the  *)
(* delete of release with an error.                                        *)

NextRun ==
    \/ TickProcessPending("a1")
    \/ \E q \in QIds : StartProcessChannel("a1", q)
    \/ AcqInsert("a1") \/ AcqInsertError("a1") \/ AcqRecord("a1")
    \/ CheckExpired("a1")
    \/ ProcessChannel("a1")
    \/ MarkCompletedError("a1")
    \/ MarkChannelFailedError("a1")
    \/ Release("a1")

SpecRun == InitTwo /\ [][NextRun]_vars

\* an execution of processChannel that had acquired the lock returns from
\* the release of its finally block
RunEnds(k) ==
    /\ task[k].kind = "channel-queue"
    /\ task[k].lockId # NoLock
    /\ task[k].pc \in {"release", "rel_delete", "rel_cleanup"}
    /\ task'[k].pc \notin {"release", "rel_delete", "rel_cleanup"}

RunOutcome ==
    \A k \in Tasks :
        RunEnds(k) =>
            /\ channel_queue'[task[k].job].status \in {"completed", "failed"}
            /\ ~\E row \in processing_locks' :
                   /\ row.resource_id = Res(k)
                   /\ row.lock_id = task[k].lockId

\* C39: an execution of processChannel that acquired the lock ends, on every
\* path, with its queue item completed or failed (not processing) and with
\* the row of its lease on channel-queue-<qid> gone from processing_locks
EveryRunSettles == [][RunOutcome]_vars

====
